---- MODULE Spec2Model ----
(***************************************************************************)
(* SQL chatbot: the read-only validator, the sanitizer and the pipeline    *)
(* controller of src/utils/security.py and src/api/chat_routes.py, with    *)
(* the session handling of the API routes.                                 *)
(*                                                                         *)
(* Text is a sequence of one-character strings, so that the regular        *)
(* expressions of the source are computed character by character.          *)
(* Confidence is counted in tenths (0.4 is 4).  A fixed phrase of the      *)
(* source is one element of a text, and an emoji in it is written as its   *)
(* name in brackets ([lock], [warning], [ok], [target]).                   *)
(***************************************************************************)
EXTENDS Integers, Sequences, FiniteSets, TLC

VARIABLES
  store,     \* the session as the session store holds it
  req,       \* per request slot: its position, its copy of the session, its turn
  turns,     \* how many chat requests have been accepted so far
  live,      \* the chat requests accepted since the history was last reset
  supplied,  \* the directive supplied for the current connection, or None
  vq,        \* validator harness: the query text under test, as its fragments
  vres,      \* validator harness: what is_read_only_query returned for vq
  vpc,       \* validator harness: "build" | "done"
  nrows,     \* normalizer harness: the rows of the raw result, as cell literals
  nonce,     \* normalizer harness: clean_sql_results of the raw result
  ntwice,    \* normalizer harness: clean_sql_results of nonce
  npc,       \* normalizer harness: "build" | "done" | "flat" | "scalar"
  sfrags,    \* sanitizer harness: the user input under test, as its fragments
  scleaned,  \* sanitizer harness: sanitize_user_input of the input
  spc,       \* sanitizer harness: "build" | "done"
  hist,      \* context harness: the conversation history under test
  hcontext,  \* context harness: the lines of the context block built from hist
  hpc        \* context harness: "build" | "done"

svars == <<store, req, turns, live, supplied>>
vvars == <<vq, vres, vpc>>
nvars == <<nrows, nonce, ntwice, npc>>
avars == <<sfrags, scleaned, spc>>
hvars == <<hist, hcontext, hpc>>
vars == <<store, req, turns, live, supplied, vq, vres, vpc, nrows, nonce, ntwice, npc,
          sfrags, scleaned, spc, hist, hcontext, hpc>>

----------------------------------------------------------------------------
(* Characters and Python's str methods.                                    *)

LowerLetters ==
  <<"a","b","c","d","e","f","g","h","i","j","k","l","m",
    "n","o","p","q","r","s","t","u","v","w","x","y","z">>

UpperLetters ==
  <<"A","B","C","D","E","F","G","H","I","J","K","L","M",
    "N","O","P","Q","R","S","T","U","V","W","X","Y","Z">>

Digits == {"0","1","2","3","4","5","6","7","8","9"}

Range(f) == {f[i] : i \in DOMAIN f}

\* str.upper() on one character
UpperChar(c) ==
  IF \E i \in 1..26 : LowerLetters[i] = c
  THEN UpperLetters[CHOOSE i \in 1..26 : LowerLetters[i] = c]
  ELSE c

\* str.lower() on one character
LowerChar(c) ==
  IF \E i \in 1..26 : UpperLetters[i] = c
  THEN LowerLetters[CHOOSE i \in 1..26 : UpperLetters[i] = c]
  ELSE c

\* str.upper()
Upper(s) == [i \in 1..Len(s) |-> UpperChar(s[i])]

\* str.lower()
Lower(s) == [i \in 1..Len(s) |-> LowerChar(s[i])]

\* the characters str.strip() removes
IsSpace(c) == c \in {" ", "\n", "\t", "\r"}

\* the characters the regular expression class \w matches
IsWordChar(c) ==
  c \in Range(LowerLetters) \cup Range(UpperLetters) \cup Digits \cup {"_"}

\* str.strip()
Strip(s) ==
  IF \A i \in 1..Len(s) : IsSpace(s[i]) THEN <<>>
  ELSE LET a == CHOOSE i \in 1..Len(s) :
                  ~IsSpace(s[i]) /\ \A j \in 1..(i-1) : IsSpace(s[j])
           b == CHOOSE i \in 1..Len(s) :
                  ~IsSpace(s[i]) /\ \A j \in (i+1)..Len(s) : IsSpace(s[j])
       IN SubSeq(s, a, b)

\* s[i:] of Python, 1-based: the text from position i on
From(s, i) == SubSeq(s, i, Len(s))

\* whether p occurs in s at position i
At(s, p, i) == i >= 1 /\ i + Len(p) - 1 <= Len(s) /\ SubSeq(s, i, i + Len(p) - 1) = p

\* str.startswith
StartsWith(s, p) == At(s, p, 1)

\* the Python operator `p in s` on strings
Contains(s, p) == \E i \in 1..(Len(s) + 1) : At(s, p, i)

----------------------------------------------------------------------------
(* is_read_only_query, src/utils/security.py                                *)

kwINSERT   == <<"I","N","S","E","R","T">>
kwUPDATE   == <<"U","P","D","A","T","E">>
kwDELETE   == <<"D","E","L","E","T","E">>
kwDROP     == <<"D","R","O","P">>
kwCREATE   == <<"C","R","E","A","T","E">>
kwALTER    == <<"A","L","T","E","R">>
kwTRUNCATE == <<"T","R","U","N","C","A","T","E">>
kwREPLACE  == <<"R","E","P","L","A","C","E">>
kwMERGE    == <<"M","E","R","G","E">>
kwGRANT    == <<"G","R","A","N","T">>
kwREVOKE   == <<"R","E","V","O","K","E">>
kwEXEC     == <<"E","X","E","C">>
kwEXECUTE  == <<"E","X","E","C","U","T","E">>
kwCALL     == <<"C","A","L","L">>
kwLOAD     == <<"L","O","A","D">>
kwRENAME   == <<"R","E","N","A","M","E">>
kwSELECT   == <<"S","E","L","E","C","T">>

\* the list without its last entry
forbidden_keywords_short ==
  <<kwINSERT, kwUPDATE, kwDELETE, kwDROP, kwCREATE, kwALTER,
    kwTRUNCATE, kwREPLACE, kwMERGE, kwGRANT, kwREVOKE,
    kwEXEC, kwEXECUTE, kwCALL, kwLOAD>>

forbidden_keywords ==
  <<kwINSERT, kwUPDATE, kwDELETE, kwDROP, kwCREATE, kwALTER,
    kwTRUNCATE, kwREPLACE, kwMERGE, kwGRANT, kwREVOKE,
    kwEXEC, kwEXECUTE, kwCALL, kwLOAD, kwRENAME>>

\* the regular expression assertion \b between s[i] and s[i+1]
WordBoundary(s, i) ==
  LET before == i >= 1 /\ i <= Len(s) /\ IsWordChar(s[i])
      after  == i + 1 >= 1 /\ i + 1 <= Len(s) /\ IsWordChar(s[i+1])
  IN before # after

\* a plain substring test, without the \b assertions
KeywordSearchNoBoundary(keyword, s) == Contains(s, keyword)

\* re.search(r'\b' + keyword + r'\b', s)
KeywordSearch(keyword, s) ==
  \E i \in 1..Len(s) :
     /\ At(s, keyword, i)
     /\ WordBoundary(s, i - 1)
     /\ WordBoundary(s, i + Len(keyword) - 1)

\* one line cut at its first "--": re.sub(r'--.*$', '', line)
CutLineComment(line) ==
  IF Contains(line, <<"-","-">>)
  THEN SubSeq(line, 1, (CHOOSE i \in 1..Len(line) :
                           /\ At(line, <<"-","-">>, i)
                           /\ \A j \in 1..(i-1) : ~At(line, <<"-","-">>, j)) - 1)
  ELSE line

\* re.sub(r'--.*$', '', s, flags=re.MULTILINE): every line cut at its first "--"
RECURSIVE StripLineComments(_)
StripLineComments(s) ==
  IF \E i \in 1..Len(s) : s[i] = "\n"
  THEN LET n == CHOOSE i \in 1..Len(s) :
                  s[i] = "\n" /\ \A j \in 1..(i-1) : s[j] # "\n"
       IN CutLineComment(SubSeq(s, 1, n - 1)) \o <<"\n">>
            \o StripLineComments(From(s, n + 1))
  ELSE CutLineComment(s)

\* whether the pattern /\*.*?\*/ matches at position i: "/*" there, "*/" later
BlockOpensAt(s, i) ==
  At(s, <<"/","*">>, i) /\ \E j \in (i+2)..Len(s) : At(s, <<"*","/">>, j)

\* re.sub(r'/\*.*?\*/', '', s, flags=re.DOTALL): leftmost match, shortest body
RECURSIVE StripBlockComments(_)
StripBlockComments(s) ==
  IF \E i \in 1..Len(s) : BlockOpensAt(s, i)
  THEN LET i == CHOOSE k \in 1..Len(s) :
                  BlockOpensAt(s, k) /\ \A m \in 1..(k-1) : ~BlockOpensAt(s, m)
           j == CHOOSE k \in (i+2)..Len(s) :
                  /\ At(s, <<"*","/">>, k)
                  /\ \A m \in (i+2)..(k-1) : ~At(s, <<"*","/">>, m)
       IN SubSeq(s, 1, i - 1) \o StripBlockComments(From(s, j + 2))
  ELSE s

\* `'SELECT' in sql_no_comments` in place of startswith
ContainsSelect(s) == Contains(s, kwSELECT)

\* sql_no_comments.startswith('SELECT')
StartsWithSelect(s) == StartsWith(s, kwSELECT)

\* the validator's answers: (is_valid, error_message), the message by its kind
Accepted == [ok |-> TRUE, msg |-> "", keyword |-> <<>>]
Rejected(m, k) == [ok |-> FALSE, msg |-> m, keyword |-> k]

is_read_only_query(sql_query) ==
  IF sql_query = <<>> THEN Rejected("Empty query", <<>>)
  ELSE
    LET sql_upper == Strip(Upper(sql_query))
        hits == {n \in DOMAIN forbidden_keywords :
                   KeywordSearch(forbidden_keywords[n], sql_upper)}
        sql_no_comments ==
          Strip(StripBlockComments(StripLineComments(sql_upper)))
    IN IF hits # {}
       THEN Rejected("Security Alert",
                     forbidden_keywords[CHOOSE n \in hits : \A m \in hits : n <= m])
       ELSE IF ~StartsWithSelect(sql_no_comments)
       THEN Rejected("Only SELECT", <<>>)
       ELSE Accepted

----------------------------------------------------------------------------
(* sanitize_user_input, src/utils/security.py                               *)

kwUNION == <<"U","N","I","O","N">>

\* the pattern list, in order: ;\s*KEYWORD four times, UNION\s+SELECT,
\* --\s*$ and /\*.*?\*/
dangerous_patterns ==
  << [kind |-> "semi", kw |-> kwDROP],
     [kind |-> "semi", kw |-> kwDELETE],
     [kind |-> "semi", kw |-> kwUPDATE],
     [kind |-> "semi", kw |-> kwINSERT],
     [kind |-> "union", kw |-> kwSELECT],
     [kind |-> "dashes", kw |-> <<>>],
     [kind |-> "block", kw |-> <<>>] >>

\* how many whitespace characters follow position i: the greedy \s*
RECURSIVE SpacesFrom(_, _)
SpacesFrom(s, i) ==
  IF i <= Len(s) /\ IsSpace(s[i]) THEN 1 + SpacesFrom(s, i + 1) ELSE 0

\* whether w occurs in s at position i, letter case ignored (re.IGNORECASE)
AtNoCase(s, w, i) ==
  i >= 1 /\ i + Len(w) - 1 <= Len(s) /\ Upper(SubSeq(s, i, i + Len(w) - 1)) = Upper(w)

\* the length of the match of pattern p that starts at position i, 0 for none
MatchLen(p, s, i) ==
  CASE p.kind = "semi" ->
         LET k == SpacesFrom(s, i + 1)
         IN IF s[i] = ";" /\ AtNoCase(s, p.kw, i + 1 + k)
            THEN 1 + k + Len(p.kw) ELSE 0
    [] p.kind = "union" ->
         LET k == SpacesFrom(s, i + 5)
         IN IF AtNoCase(s, kwUNION, i) /\ k >= 1 /\ AtNoCase(s, p.kw, i + 5 + k)
            THEN 5 + k + Len(p.kw) ELSE 0
    [] p.kind = "dashes" ->
         IF At(s, <<"-","-">>, i) /\ \A j \in (i+2)..Len(s) : IsSpace(s[j])
         THEN Len(s) - i + 1 ELSE 0
    [] p.kind = "block" ->
         LET ends == {j \in (i+2)..Len(s) :
                        /\ At(s, <<"*","/">>, j)
                        /\ \A m \in (i+2)..(j-1) : s[m] # "\n"}
         IN IF At(s, <<"/","*">>, i) /\ ends # {}
            THEN (CHOOSE j \in ends : \A m \in ends : j <= m) + 2 - i ELSE 0

\* re.sub(p, '', s, flags=re.IGNORECASE): every match removed, left to right,
\* the scan going on after each match
RECURSIVE ReSub(_, _)
ReSub(p, s) ==
  LET starts == {i \in 1..Len(s) : MatchLen(p, s, i) > 0}
  IN IF starts = {} THEN s
     ELSE LET i == CHOOSE k \in starts : \A m \in starts : k <= m
          IN SubSeq(s, 1, i - 1) \o ReSub(p, From(s, i + MatchLen(p, s, i)))

\* the loop over the patterns, from pattern n on
RECURSIVE SanitizeFrom(_, _)
SanitizeFrom(n, cleaned) ==
  IF n > Len(dangerous_patterns) THEN cleaned
  ELSE SanitizeFrom(n + 1, ReSub(dangerous_patterns[n], cleaned))

sanitize_user_input(user_input) == SanitizeFrom(1, user_input)

----------------------------------------------------------------------------
(* Values of the pipeline.  A fixed phrase of the source is one element of  *)
(* a text (a string of several characters); the text that the source scans  *)
(* or rewrites is kept character by character.                              *)

\* Python's None, where a text is expected
None == <<"None">>

\* Python's None, where the connection descriptor is expected
NoConfig == [database |-> "None"]

\* Python's None, where the schema description is expected
NoSchema == [of |-> "None"]

\* the truth value Python gives a text or None (`if sql_query:`)
Truthy(x) == x # None /\ x # <<>>

\* str.replace(old, new): every occurrence, left to right
RECURSIVE Replace(_, _, _)
Replace(s, old, new) ==
  LET starts == {i \in 1..Len(s) : At(s, old, i)}
  IN IF starts = {} THEN s
     ELSE LET i == CHOOSE k \in starts : \A m \in starts : k <= m
          IN SubSeq(s, 1, i - 1) \o new \o Replace(From(s, i + Len(old)), old, new)

----------------------------------------------------------------------------
(* clean_sql_results, src/utils/response_generator.py.  ast.literal_eval is *)
(* computed by a parser for the literals that str() of a list of row tuples *)
(* is written in: lists and tuples of strings, bytes, numbers without sign  *)
(* or exponent, None, True and False.  A text that holds anything else      *)
(* (a call such as Decimal('4.99'), a name, an operator) does not parse.    *)

Quotes == {"'", "\""}

HexDigits == Digits \cup {"a","b","c","d","e","f","A","B","C","D","E","F"}

IsLetter(c) == c \in Range(LowerLetters) \cup Range(UpperLetters)

IsUpperLetter(c) == c \in Range(UpperLetters)

\* the first position from i on that holds no whitespace, Len(s) + 1 if none
NextNonSpace(s, i) ==
  IF \E j \in i..Len(s) : ~IsSpace(s[j])
  THEN CHOOSE j \in i..Len(s) : ~IsSpace(s[j]) /\ \A k \in i..(j - 1) : IsSpace(s[k])
  ELSE Len(s) + 1

\* the position of the quote that closes a string literal whose content starts
\* at j, 0 if it is never closed; a backslash takes the next character with it
RECURSIVE StringEnd(_, _, _)
StringEnd(s, j, q) ==
  IF j > Len(s) THEN 0
  ELSE IF s[j] = "\\" THEN StringEnd(s, j + 2, q)
  ELSE IF s[j] = q THEN j
  ELSE StringEnd(s, j + 1, q)

\* the value of a string literal's content: \\ \' \" \n \t are decoded
RECURSIVE Unescape(_)
Unescape(c) ==
  IF c = <<>> THEN <<>>
  ELSE IF c[1] = "\\" /\ Len(c) >= 2
  THEN (CASE c[2] = "n" -> <<"\n">>
          [] c[2] = "t" -> <<"\t">>
          [] OTHER -> <<c[2]>>) \o Unescape(From(c, 3))
  ELSE <<c[1]>> \o Unescape(Tail(c))

\* the end of the run of digits and "." that starts at i
NumberEnd(s, i) ==
  IF \E j \in i..Len(s) : s[j] \notin Digits \cup {"."}
  THEN (CHOOSE j \in i..Len(s) :
          s[j] \notin Digits \cup {"."} /\ \A k \in i..(j - 1) : s[k] \in Digits \cup {"."}) - 1
  ELSE Len(s)

\* whether t is a number literal: digits with at most one ".", and no leading
\* zero on an integer that is not zero
IsNumberLiteral(t) ==
  /\ \E k \in 1..Len(t) : t[k] \in Digits
  /\ Cardinality({k \in 1..Len(t) : t[k] = "."}) <= 1
  /\ (Len(t) > 1 /\ t[1] = "0" /\ \A k \in 1..Len(t) : t[k] # ".")
       => \A k \in 1..Len(t) : t[k] = "0"

NoValue == [ok |-> FALSE, kind |-> "", text |-> <<>>, next |-> 0]

Value(kind, text, next) == [ok |-> TRUE, kind |-> kind, text |-> text, next |-> next]

\* what follows a literal: whitespace, a separator, a closing bracket or the end
EndsLiteral(s, i) == i > Len(s) \/ IsSpace(s[i]) \/ s[i] \in {",", ")", "]"}

\* the string literal whose quote opens at i, with the string literals that
\* follow it directly: Python joins adjacent string literals.  text is what the
\* literals before it gave; StringRest looks at what follows the closing quote
RECURSIVE ParseString(_, _, _), StringRest(_, _, _, _)
ParseString(s, i, text) ==
  LET e == StringEnd(s, i + 1, s[i])
  IN IF e = 0 THEN NoValue
     ELSE StringRest(s, NextNonSpace(s, e + 1),
                     text \o Unescape(SubSeq(s, i + 1, e - 1)), e + 1)

StringRest(s, k, text, next) ==
  IF k <= Len(s) /\ s[k] \in Quotes
  THEN ParseString(s, k, text)
  ELSE Value("str", text, next)

\* the literal that starts at position i, which holds no whitespace: a string,
\* bytes, a number, None, True or False
ParseScalar(s, i) ==
  IF i > Len(s) THEN NoValue
  ELSE IF s[i] \in Quotes
  THEN ParseString(s, i, <<>>)
  ELSE IF s[i] = "b" /\ i < Len(s) /\ s[i + 1] \in Quotes
  THEN LET e == StringEnd(s, i + 2, s[i + 1])
       IN IF e = 0 THEN NoValue
          ELSE Value("bytes", SubSeq(s, i + 2, e - 1), e + 1)
  ELSE IF s[i] \in Digits \cup {"."}
  THEN LET e == NumberEnd(s, i)
       IN IF IsNumberLiteral(SubSeq(s, i, e)) /\ EndsLiteral(s, e + 1)
          THEN Value("num", SubSeq(s, i, e), e + 1)
          ELSE NoValue
  ELSE IF At(s, <<"N","o","n","e">>, i) /\ EndsLiteral(s, i + 4)
  THEN Value("none", <<>>, i + 4)
  ELSE IF At(s, <<"T","r","u","e">>, i) /\ EndsLiteral(s, i + 4)
  THEN Value("num", <<"1">>, i + 4)
  ELSE IF At(s, <<"F","a","l","s","e">>, i) /\ EndsLiteral(s, i + 5)
  THEN Value("num", <<"0">>, i + 5)
  ELSE NoValue

NoItems == [ok |-> FALSE, cells |-> <<>>, commas |-> 0, next |-> 0]

\* the scalars from position i up to the bracket close, separated by commas:
\* the cells, how many commas there were and the position after the bracket.
\* CellsAt stands on the next item at j, CellsAfter has read the scalar v and
\* CellsSep stands on what follows it at k
RECURSIVE ParseCells(_, _, _, _, _), CellsAt(_, _, _, _, _),
          CellsAfter(_, _, _, _, _), CellsSep(_, _, _, _, _)
ParseCells(s, i, close, cells, commas) ==
  CellsAt(s, NextNonSpace(s, i), close, cells, commas)

CellsAt(s, j, close, cells, commas) ==
  IF j > Len(s) THEN NoItems
  ELSE IF s[j] = close
  THEN [ok |-> TRUE, cells |-> cells, commas |-> commas, next |-> j + 1]
  ELSE CellsAfter(s, ParseScalar(s, j), close, cells, commas)

CellsAfter(s, v, close, cells, commas) ==
  IF ~v.ok THEN NoItems
  ELSE CellsSep(s, NextNonSpace(s, v.next), close, Append(cells, v), commas)

CellsSep(s, k, close, cells, commas) ==
  IF k > Len(s) THEN NoItems
  ELSE IF s[k] = ","
  THEN ParseCells(s, k + 1, close, cells, commas + 1)
  ELSE IF s[k] = close
  THEN [ok |-> TRUE, cells |-> cells, commas |-> commas, next |-> k + 1]
  ELSE NoItems

NoList == [ok |-> FALSE, items |-> <<>>, next |-> 0]

\* one item of a list, read at j: a tuple of scalars gives its cells, any
\* other item is marked as no tuple; (x) is x in parentheses, (x,) and () are
\* tuples
TupleItem(t) ==
  [ok |-> t.ok, tuple |-> t.commas > 0 \/ t.cells = <<>>, cells |-> t.cells,
   next |-> t.next]

ScalarItem(v) == [ok |-> v.ok, tuple |-> FALSE, cells |-> <<>>, next |-> v.next]

ParseItem(s, j) ==
  IF s[j] = "(" THEN TupleItem(ParseCells(s, j + 1, ")", <<>>, 0))
  ELSE ScalarItem(ParseScalar(s, j))

\* the items of a list from position i up to its "]"
RECURSIVE ParseListItems(_, _, _), ItemsAt(_, _, _), ItemsAfter(_, _, _),
          ItemsSep(_, _, _)
ParseListItems(s, i, items) == ItemsAt(s, NextNonSpace(s, i), items)

ItemsAt(s, j, items) ==
  IF j > Len(s) THEN NoList
  ELSE IF s[j] = "]" THEN [ok |-> TRUE, items |-> items, next |-> j + 1]
  ELSE ItemsAfter(s, ParseItem(s, j), items)

ItemsAfter(s, item, items) ==
  IF ~item.ok THEN NoList
  ELSE ItemsSep(s, NextNonSpace(s, item.next),
                Append(items, [tuple |-> item.tuple, cells |-> item.cells]))

ItemsSep(s, k, items) ==
  IF k > Len(s) THEN NoList
  ELSE IF s[k] = ","
  THEN ParseListItems(s, k + 1, items)
  ELSE IF s[k] = "]"
  THEN [ok |-> TRUE, items |-> items, next |-> k + 1]
  ELSE NoList

Raises == [ok |-> FALSE, list |-> FALSE, items |-> <<>>]

NotAList == [ok |-> TRUE, list |-> FALSE, items |-> <<>>]

\* a list that is closed and followed by nothing but whitespace
EvalList(s, l) ==
  IF ~l.ok THEN Raises
  ELSE IF NextNonSpace(s, l.next) > Len(s)
  THEN [ok |-> TRUE, list |-> TRUE, items |-> l.items]
  ELSE Raises

\* a tuple in parentheses, followed by nothing but whitespace
EvalTuple(s, t) ==
  IF ~t.ok THEN Raises
  ELSE IF NextNonSpace(s, t.next) > Len(s) THEN NotAList ELSE Raises

\* a scalar, or scalars separated by commas: a tuple without parentheses, read
\* up to a ")" put after the text
EvalBare(s, t) ==
  IF ~t.ok THEN Raises
  ELSE IF t.cells # <<>> /\ t.next = Len(s) + 2 THEN NotAList ELSE Raises

\* the value that starts at i
EvalAt(s, i) ==
  IF i > Len(s) THEN Raises
  ELSE IF s[i] = "[" THEN EvalList(s, ParseListItems(s, i + 1, <<>>))
  ELSE IF s[i] = "(" THEN EvalTuple(s, ParseCells(s, i + 1, ")", <<>>, 0))
  ELSE EvalBare(s, ParseCells(s \o <<")">>, i, ")", <<>>, 0))

\* ast.literal_eval: [ok, list, items].  ok is FALSE when it raises, list says
\* whether the value is a list, items are the list's items
literal_eval(s) == EvalAt(s, NextNonSpace(s, 1))

BinaryPlaceholder ==
  <<"[","B","i","n","a","r","y"," ","D","a","t","a"," ","-"," ",
    "I","m","a","g","e","/","B","L","O","B","]">>

BinaryRemoved ==
  <<" ","|"," ","[","B","i","n","a","r","y"," ","D","a","t","a"," ","-"," ",
    "I","m","a","g","e","/","B","L","O","B"," ","r","e","m","o","v","e","d","]">>

PipeSeparator == <<" ","|"," ">>

NullToken == <<"N","U","L","L">>

\* how far into a string cell the test for an encoded binary string looks
BinaryScanLen == 20

\* sep.join(parts)
RECURSIVE Join(_, _)
Join(parts, sep) ==
  IF parts = <<>> THEN <<>>
  ELSE IF Len(parts) = 1 THEN parts[1]
  ELSE parts[1] \o sep \o Join(Tail(parts), sep)

\* the first position at which p occurs in s, 0 if it does not
IndexOf(s, p) ==
  IF Contains(s, p) /\ p # <<>>
  THEN CHOOSE i \in 1..Len(s) : At(s, p, i) /\ \A k \in 1..(i - 1) : ~At(s, p, k)
  ELSE 0

\* s.split(p)[0]
Before(s, p) == IF IndexOf(s, p) = 0 THEN s ELSE SubSeq(s, 1, IndexOf(s, p) - 1)

\* digits without their leading zeros, "0" if nothing is left
StripLeadingZeros(d) ==
  IF \A k \in 1..Len(d) : d[k] = "0" THEN <<"0">>
  ELSE From(d, CHOOSE k \in 1..Len(d) : d[k] # "0" /\ \A m \in 1..(k - 1) : d[m] = "0")

\* digits without their trailing zeros, "0" if nothing is left
StripTrailingZeros(d) ==
  IF \A k \in 1..Len(d) : d[k] = "0" THEN <<"0">>
  ELSE SubSeq(d, 1, CHOOSE k \in 1..Len(d) :
                      d[k] # "0" /\ \A m \in (k + 1)..Len(d) : d[m] = "0")

\* str(float(value)) for a number literal that float() holds exactly as
\* written and prints without an exponent
FloatStr(t) ==
  LET dot == IndexOf(t, <<".">>)
      whole == IF dot = 0 THEN t ELSE SubSeq(t, 1, dot - 1)
      frac  == IF dot = 0 THEN <<>> ELSE From(t, dot + 1)
  IN StripLeadingZeros(whole) \o <<".">> \o StripTrailingZeros(frac)

\* str.isupper(): a cased character, and no lower-case one
IsUpperStr(v) ==
  /\ \E i \in 1..Len(v) : IsUpperLetter(v[i])
  /\ \A i \in 1..Len(v) : v[i] \notin Range(LowerLetters)

\* str.title(): a letter after a letter is lower case, any other is upper case
Title(v) ==
  [i \in 1..Len(v) |->
     IF i > 1 /\ IsLetter(v[i - 1]) THEN LowerChar(v[i]) ELSE UpperChar(v[i])]

\* isinstance(value, bytes)
IsBinaryCell(value) == value.kind = "bytes"

\* a string that is taken for encoded binary data
IsEncodedBinary(value) ==
  /\ value.kind = "str"
  /\ \/ StartsWith(value.text, <<"b","\\","x">>)
     \/ Contains(SubSeq(value.text, 1,
                        IF Len(value.text) > BinaryScanLen
                        THEN BinaryScanLen ELSE Len(value.text)),
                 <<"\\","x">>)

\* one cell of a row, as the structured path shows it
CleanCell(value) ==
  IF IsBinaryCell(value) THEN BinaryPlaceholder
  ELSE IF IsEncodedBinary(value) THEN BinaryPlaceholder
  ELSE IF value.kind = "num" THEN FloatStr(value.text)
  ELSE IF value.kind = "str"
  THEN LET cleaned_value == Strip(value.text)
       IN IF /\ ~Contains(cleaned_value, <<"@">>)
             /\ ~Contains(Lower(cleaned_value), <<"h","t","t","p">>)
             /\ IsUpperStr(cleaned_value)
          THEN Title(cleaned_value)
          ELSE cleaned_value
  ELSE IF value.kind = "none" THEN NullToken
  ELSE \* str(value) of bytes
       <<"b","'">> \o value.text \o <<"'">>

\* re.sub(r"Decimal\(['\"]([^'\"]+)['\"]\)", r'\1', s)
DecimalOpen == <<"D","e","c","i","m","a","l","(">>

\* the position of the quote that closes the wrapper opened at i, 0 if the
\* pattern does not match at i
DecimalClose(s, i) ==
  IF /\ At(s, DecimalOpen, i)
     /\ i + 8 <= Len(s) /\ s[i + 8] \in Quotes
     /\ \E e \in (i + 10)..(Len(s) - 1) :
          /\ s[e] \in Quotes /\ s[e + 1] = ")"
          /\ \A k \in (i + 9)..(e - 1) : s[k] \notin Quotes
  THEN CHOOSE e \in (i + 10)..(Len(s) - 1) :
          /\ s[e] \in Quotes /\ s[e + 1] = ")"
          /\ \A k \in (i + 9)..(e - 1) : s[k] \notin Quotes
  ELSE 0

RECURSIVE DecimalSub(_)
DecimalSub(s) ==
  LET starts == {i \in 1..Len(s) : DecimalClose(s, i) # 0}
  IN IF starts = {} THEN s
     ELSE LET i == CHOOSE k \in starts : \A m \in starts : k <= m
              e == DecimalClose(s, i)
          IN SubSeq(s, 1, i - 1) \o SubSeq(s, i + 9, e - 1) \o DecimalSub(From(s, e + 2))

\* the position where the group opened by c at i is closed by d: the first d
\* after i, if at least one character lies between; 0 otherwise
GroupClose(s, i, c, d) ==
  IF /\ i <= Len(s) /\ s[i] = c
     /\ \E e \in (i + 2)..Len(s) : s[e] = d /\ \A k \in (i + 1)..(e - 1) : s[k] # d
  THEN CHOOSE e \in (i + 2)..Len(s) : s[e] = d /\ \A k \in (i + 1)..(e - 1) : s[k] # d
  ELSE 0

\* re.findall(r'\(([^)]+)\)', s)
RECURSIVE FindTuples(_)
FindTuples(s) ==
  LET starts == {i \in 1..Len(s) : GroupClose(s, i, "(", ")") # 0}
  IN IF starts = {} THEN <<>>
     ELSE LET i == CHOOSE k \in starts : \A m \in starts : k <= m
              e == GroupClose(s, i, "(", ")")
          IN << SubSeq(s, i + 1, e - 1) >> \o FindTuples(From(s, e + 1))

\* re.sub(r"'([^']+)'", r'\1', s)
RECURSIVE QuoteSub(_)
QuoteSub(s) ==
  LET starts == {i \in 1..Len(s) : GroupClose(s, i, "'", "'") # 0}
  IN IF starts = {} THEN s
     ELSE LET i == CHOOSE k \in starts : \A m \in starts : k <= m
              e == GroupClose(s, i, "'", "'")
          IN SubSeq(s, 1, i - 1) \o SubSeq(s, i + 1, e - 1) \o QuoteSub(From(s, e + 1))

\* whether position i lies in a match of \b[A-Z]{2,}\b: a run of at least two
\* upper-case letters with no word character before or after it
RunStart(s, i) ==
  CHOOSE a \in 1..i :
    /\ \A k \in a..i : IsUpperLetter(s[k])
    /\ a = 1 \/ ~IsUpperLetter(s[a - 1])

RunEnd(s, i) ==
  CHOOSE b \in i..Len(s) :
    /\ \A k \in i..b : IsUpperLetter(s[k])
    /\ b = Len(s) \/ ~IsUpperLetter(s[b + 1])

InUpperWord(s, i) ==
  /\ IsUpperLetter(s[i])
  /\ RunEnd(s, i) > RunStart(s, i)
  /\ RunStart(s, i) = 1 \/ ~IsWordChar(s[RunStart(s, i) - 1])
  /\ RunEnd(s, i) = Len(s) \/ ~IsWordChar(s[RunEnd(s, i) + 1])

\* re.sub(r'\b[A-Z]{2,}\b', title_case_match, s); keep_http is the test of
\* lines 89 and 90, which only the rows of several tuples get
TitleWords(s, keep_http) ==
  [i \in 1..Len(s) |->
     IF /\ InUpperWord(s, i)
        /\ i > RunStart(s, i)
        /\ ~(keep_http /\ Contains(Lower(SubSeq(s, RunStart(s, i), RunEnd(s, i))),
                                  <<"h","t","t","p">>))
     THEN LowerChar(s[i])
     ELSE s[i]]

\* re.sub(r',\s*', ' | ', s)
RECURSIVE CommaSub(_)
CommaSub(s) ==
  LET i == IndexOf(s, <<",">>)
  IN IF i = 0 THEN s
     ELSE SubSeq(s, 1, i - 1) \o PipeSeparator
            \o CommaSub(From(s, i + 1 + SpacesFrom(s, i + 1)))

\* re.sub(r"[\[\]\(\)]", "", s)
RemoveBrackets(s) == SelectSeq(s, LAMBDA c : c \notin {"[", "]", "(", ")"})

\* re.sub(r'\\x[0-9a-fA-F]{2}', '', s)
HexEscapeAt(s, i) ==
  /\ i + 3 <= Len(s)
  /\ s[i] = "\\" /\ s[i + 1] = "x"
  /\ s[i + 2] \in HexDigits /\ s[i + 3] \in HexDigits

RECURSIVE HexSub(_)
HexSub(s) ==
  LET starts == {i \in 1..Len(s) : HexEscapeAt(s, i)}
  IN IF starts = {} THEN s
     ELSE LET i == CHOOSE k \in starts : \A m \in starts : k <= m
          IN SubSeq(s, 1, i - 1) \o HexSub(From(s, i + 4))

\* lines 19 to 59: the rows of a parsed result
CleanStructured(parsed) ==
  LET tuples == SelectSeq(parsed.items, LAMBDA item : item.tuple)
      cleaned_rows ==
        [r \in 1..Len(tuples) |->
           Join([c \in 1..Len(tuples[r].cells) |-> CleanCell(tuples[r].cells[c])],
                PipeSeparator)]
      cleaned_output == IF parsed.list THEN Join(cleaned_rows, <<"\n">>) ELSE <<>>
  IN Replace(Replace(DecimalSub(cleaned_output), <<"[","(">>, <<>>),
             <<")","]">>, <<>>)

\* lines 61 to 120: the cleaning of a text that does not parse
CleanUnparsed(sql_result) ==
  LET binary == \/ Contains(sql_result, <<"b","\\","x">>)
                \/ Contains(sql_result, <<"\\","x","8","9","P","N","G">>)
      parts == Before(Before(sql_result, <<"b","'">>), <<"b","\\","x">>)
      text == IF binary THEN parts \o BinaryRemoved ELSE sql_result
      cleaned == DecimalSub(text)
      tuples == FindTuples(cleaned)
      rows == [r \in 1..Len(tuples) |->
                 CommaSub(TitleWords(QuoteSub(tuples[r]), TRUE))]
      single == CommaSub(TitleWords(QuoteSub(RemoveBrackets(
                  Replace(Replace(cleaned, <<"[","(">>, <<>>), <<")","]">>, <<>>))),
                  FALSE))
  IN HexSub(IF Len(tuples) > 1 THEN Join(rows, <<"\n">>) ELSE single)

RowsAB == <<"[","(","'","A","B","'",",",")","]">>
RowsOne == <<"[","(","1",",",")","]">>

clean_sql_results(sql_result) ==
  LET parsed == literal_eval(sql_result)
  IN IF parsed.ok THEN CleanStructured(parsed) ELSE CleanUnparsed(sql_result)

----------------------------------------------------------------------------
(* generate_sql_query_with_llm, src/utils/query_generator.py                *)

ContextTurns == 8
MaxAssistantLen == 500
MaxUserLen == 200

\* the whole history
AllTurns(h) == h

\* conversation_history[-8:]
LastTurns(h) == SubSeq(h, IF Len(h) > ContextTurns THEN Len(h) - ContextTurns + 1 ELSE 1, Len(h))

\* content[:max_length], with "..." when the content was longer
Truncated(content, max_length) ==
  IF Len(content) > max_length
  THEN SubSeq(content, 1, max_length) \o <<".",".",".">>
  ELSE content

\* one line of the context block
ContextLine(msg) ==
  [role    |-> IF msg.role = "user" THEN "User" ELSE "Assistant",
   content |-> Truncated(msg.content,
                 IF msg.role = "assistant" THEN MaxAssistantLen ELSE MaxUserLen)]

\* the context block: nothing for a history of fewer than 2 turns
BuildContext(conversation_history) ==
  IF Len(conversation_history) > 1
  THEN LET recent == LastTurns(conversation_history)
       IN [i \in 1..Len(recent) |-> ContextLine(recent[i])]
  ELSE <<>>

\* slicing None raises TypeError: msg.get('content', '')[:max_length]
ContextRaises(conversation_history) ==
  /\ Len(conversation_history) > 1
  /\ \E i \in 1..Len(LastTurns(conversation_history)) :
        LastTurns(conversation_history)[i].content = None

CouldNotGenerate ==
  <<"C","o","u","l","d"," ","n","o","t"," ","g","e","n","e","r","a","t","e",
    " ","S","Q","L"," ","q","u","e","r","y">>

ErrorPrefix == <<"E","r","r","o","r",":"," ">>

Plan(q, c, r) == [sql_query |-> q, confidence |-> c, reasoning |-> r]

\* the request that reaches the planner's language model
PlannerRequest(user_query, schema_info, conversation_history, custom_directive) ==
  [question  |-> user_query,
   schema    |-> schema_info,
   context   |-> BuildContext(conversation_history),
   directive |-> custom_directive]

\* the call whose context block could not be built: no request reaches the
\* language model
PlannerCallRaising(user_query, schema_info, custom_directive) ==
  [question  |-> user_query,
   schema    |-> schema_info,
   context   |-> <<>>,
   directive |-> custom_directive]

\* What the call returns for the language model's outcome llm:
\*   raise  - llm.invoke or json.loads raises, with the message llm.err
\*   nojson - the response holds no {...}
\*   json   - the response parses to the object llm.plan, returned as it is
generate_sql_query_with_llm(llm) ==
  CASE llm.kind = "json"   -> llm.plan
    [] llm.kind = "nojson" -> Plan(None, 0, CouldNotGenerate)
    [] llm.kind = "raise"  -> Plan(None, 0, ErrorPrefix \o llm.err)

----------------------------------------------------------------------------
(* generate_natural_language_response, src/utils/response_generator.py      *)

AnswerRequest(user_query, sql_result, custom_directive) ==
  [question |-> user_query, result |-> sql_result, directive |-> custom_directive]

\* the model's answer, or the results as they are when llm.invoke raises
generate_natural_language_response(sql_result, llm) ==
  IF llm.kind = "raise"
  THEN <<"Here are the results:\n\n">> \o sql_result
  ELSE llm.text

----------------------------------------------------------------------------
(* The pipeline controller, src/api/chat_routes.py                          *)

ConfThreshold == 4

ConnectFirstText == <<"Please connect to a database first.">>

NoResultsText ==
  <<"I couldn't find any results matching your query. Could you try rephrasing or asking something else?">>

PleaseClarifyText ==
  <<"I'm not quite sure what you're asking for. Could you please provide more details or rephrase your question?">>

ProcessingErrorText ==
  <<"I encountered an error processing your question. Could you try rephrasing it?">>

AgentAlertText ==
  <<"[lock] Security Alert: Cannot execute data modification queries. This chatbot is read-only.">>

AgentEmptyText == <<"I couldn't process that request. Please try rephrasing.">>

AgentTroubleText ==
  <<"I'm having trouble understanding that question. Could you rephrase it?">>

\* the validator's error_message as text
ErrorMessage(v) ==
  CASE v.msg = "Security Alert" ->
         <<"[warning] Security Alert: ">> \o v.keyword
           \o <<" operations are not allowed. This chatbot is read-only.">>
    [] v.msg = "Only SELECT" ->
         <<"[warning] Only SELECT queries are allowed. This chatbot cannot modify data.">>
    [] OTHER -> <<"Empty query">>

RejectNoticeTail ==
  <<"\n\nI can only help you **retrieve and analyze** data, not modify it. Please ask a question about viewing or analyzing your database information.">>

RejectNotice(v) == <<"[lock] ">> \o ErrorMessage(v) \o RejectNoticeTail

SecurityNoticeHead ==
  <<"[lock] **Security Notice:** This chatbot is read-only and cannot modify database contents.\n\n">>

SecurityNotice(reasoning) ==
  SecurityNoticeHead \o reasoning
    \o <<"\n\nI can help you view and analyze data. What would you like to know about your database?">>

ClarificationHead == <<"I apologize, but I need more information. ">>

Clarification(clean_reasoning) ==
  ClarificationHead \o clean_reasoning \o <<"\n\nWhat would you like to know?">>

modification_keywords ==
  { <<"m","o","d","i","f","y">>, <<"u","p","d","a","t","e">>,
    <<"d","e","l","e","t","e">>, <<"i","n","s","e","r","t">>,
    <<"c","h","a","n","g","e">>, <<"r","e","m","o","v","e">> }

\* any(keyword in reasoning.lower() for keyword in [...])
IsModificationRequest(reasoning) ==
  \E keyword \in modification_keywords : Contains(Lower(reasoning), keyword)

\* the three replace calls that make clean_reasoning
CleanReasoning(reasoning) ==
  Replace(Replace(Replace(reasoning,
      <<"S","Q","L"," ","q","u","e","r","y">>, <<"s","e","a","r","c","h">>),
      <<"g","e","n","e","r","a","t","e">>, <<"f","i","n","d">>),
      <<"d","a","t","a","b","a","s","e"," ","q","u","e","r","y">>,
      <<"i","n","f","o","r","m","a","t","i","o","n">>)

agent_keywords == {kwINSERT, kwUPDATE, kwDELETE, kwDROP, kwALTER}

\* [to, arg, res]: one call of a collaborator or of the validator, in order
Call(to, arg, res) == [to |-> to, arg |-> arg, res |-> res]

NoPlan == Plan(None, 0, <<>>)

\* fallback_to_sql_agent: agent is the agent's outcome, raise (from creating or
\* invoking it) or the text of result["output"]
SecureQueryPlain(user_query) == user_query

SecureQuery(user_query) ==
  <<"[READ-ONLY MODE] ">> \o user_query \o <<". Only generate SELECT queries.">>

fallback_to_sql_agent(agent) ==
  IF agent.kind = "raise" THEN AgentTroubleText
  ELSE LET output ==
             IF Contains(agent.text, <<"[","(">>)
                \/ Contains(agent.text, <<"D","e","c","i","m","a","l","(">>)
             THEN clean_sql_results(agent.text)
             ELSE agent.text
       IN IF \E keyword \in agent_keywords : Contains(Upper(output), keyword)
          THEN AgentAlertText
          ELSE IF output # <<>> THEN output ELSE AgentEmptyText

\* the branch taken when the plan is not executed
LowConfidenceResponse(confidence, reasoning) ==
  IF confidence = 0
  THEN IF IsModificationRequest(reasoning)
       THEN SecurityNotice(reasoning)
       ELSE Clarification(CleanReasoning(reasoning))
  ELSE IF confidence < ConfThreshold
  THEN PleaseClarifyText
  ELSE None

\* `if sql_query:` with a query the validator does not accept
RejectsPlanNever(sql_query) == FALSE

RejectsPlan(sql_query) == Truthy(sql_query) /\ ~is_read_only_query(sql_query).ok

\* `if sql_query and confidence > 0.4:`
ShouldExecute(sql_query, confidence) ==
  Truthy(sql_query) /\ confidence > ConfThreshold

\* the test without its comparison with "[]"
HasRowsIgnoringBrackets(sql_result) ==
  sql_result # <<>> /\ Strip(sql_result) # <<>>

\* `if sql_result and sql_result.strip() and sql_result != "[]":`
HasRows(sql_result) ==
  sql_result # <<>> /\ Strip(sql_result) # <<>> /\ sql_result # <<"[","]">>

----------------------------------------------------------------------------
(* The session and the API routes.  A request works on the copy of the      *)
(* session it was given when it came in, and the copy is written back to    *)
(* the store when its response goes out (Flask-Session, SESSION_TYPE =      *)
(* 'filesystem').  A chat request gives way to other requests while it      *)
(* waits for a collaborator.  Every history entry carries the number of the *)
(* chat request that appended it (turn, 0 for the welcome message): this is *)
(* bookkeeping of the model, not a field of the source.  Every request      *)
(* other than an accepted chat request is taken while no chat request is    *)
(* under way.                                                               *)

MaxTurns == 2
NumRequests == 2

Requests == 1..NumRequests

Databases == {"db1", "db2"}

DirBrief == <<"b","r","i","e","f">>

\* data.get('directive', ''), stripped
Directives == {<<>>, DirBrief}

MsgPlain  == <<"h","i">>
MsgInject == <<"x",";","d","r","o","p">>

\* data.get('message', '')
Bodies == {<<" ">>, MsgPlain, MsgInject}

GoodQuery == <<"S","E","L","E","C","T"," ","a">>
BadQuery  == <<"d","r","o","p"," ","t">>

ReasonMissing == <<"n","o"," ","S","Q","L"," ","q","u","e","r","y">>
ReasonModify  == <<"c","a","n","n","o","t"," ","m","o","d","i","f","y">>

\* the plans a parsed planner response is drawn from: every confidence
\* bucket without a query, with a query the validator accepts and with one it
\* rejects
Plans ==
  { Plan(None, 0, ReasonModify), Plan(None, 0, ReasonMissing),
    Plan(None, 2, ReasonMissing), Plan(None, 4, ReasonMissing),
    Plan(None, 9, ReasonMissing), Plan(<<>>, 9, ReasonMissing),
    Plan(GoodQuery, 0, ReasonMissing), Plan(GoodQuery, 2, ReasonMissing),
    Plan(GoodQuery, 4, ReasonMissing), Plan(GoodQuery, 9, ReasonMissing),
    Plan(BadQuery, 0, ReasonModify), Plan(BadQuery, 9, ReasonMissing) }

LlmOutcomes ==
  { [kind |-> "json", plan |-> p, err |-> <<>>] : p \in Plans }
  \cup { [kind |-> "nojson", plan |-> NoPlan, err |-> <<>>],
         [kind |-> "raise", plan |-> NoPlan, err |-> <<"b","o","o","m">>],
         [kind |-> "raise", plan |-> NoPlan,
          err |-> <<"u","p","d","a","t","e"," ","k","e","y">>] }

\* str(sql_error), which line 104 prints
ExecError == <<"n","o"," ","s","u","c","h"," ","t","a","b","l","e">>

ExecOutcomes ==
  { [kind |-> "raise", text |-> ExecError] }
  \cup { [kind |-> "text", text |-> t] : t \in {<<>>, <<" ">>, <<"[","]">>, RowsAB} }

AnswerOutcomes ==
  { [kind |-> "raise", text |-> <<>>], [kind |-> "text", text |-> <<"o","k">>] }

\* an agent output that names a statement the agent ran
AgentTruncate == <<"t","r","u","n","c","a","t","e"," ","t">>

AgentOutcomes ==
  { [kind |-> "raise", text |-> <<>>] }
  \cup { [kind |-> "text", text |-> t] :
           t \in {<<>>, <<"o","k">>, <<"d","e","l","e","t","e","d">>, RowsOne,
                  AgentTruncate} }

SetupOutcomes == {"ok", "db_fail", "schema_fail", "llm_fail"}

\* init_session: the defaults of a session that holds nothing yet
EmptySession ==
  [messages |-> <<>>, db_config |-> NoConfig, db_connected |-> FALSE,
   chatbot_directive |-> None, schema_cache |-> NoSchema]

Message(role, content, turn) == [role |-> role, content |-> content, turn |-> turn]

NoTurn ==
  [id |-> 0, message |-> <<>>, sanitized |-> <<>>, plan |-> NoPlan,
   sql_result |-> None, agent_output |-> <<>>, calls |-> <<>>, response |-> <<>>]

IdleRequest == [pc |-> "idle", sess |-> EmptySession, turn |-> NoTurn]

Init ==
  /\ store = EmptySession
  /\ req = [r \in Requests |-> IdleRequest]
  /\ turns = 0
  /\ live = {}
  /\ supplied = None
  /\ vq = <<>> /\ vres = [ok |-> FALSE, msg |-> "not run", keyword |-> <<>>]
  /\ vpc = "build"
  /\ nrows = <<>> /\ nonce = <<>> /\ ntwice = <<>>
  /\ npc = "build"
  /\ sfrags = <<>> /\ scleaned = <<>> /\ spc = "build"
  /\ hist = <<>> /\ hcontext = <<>> /\ hpc = "build"

DirectivePreviewLen == 100

\* the welcome message of connect
WelcomeText(database, directive) ==
  <<"[ok] Successfully connected to **", database, "**!">>
    \o (IF directive # <<>>
        THEN <<"\n\n[target] **Active Directive:** ">>
               \o SubSeq(directive, 1,
                         IF Len(directive) > DirectivePreviewLen
                         THEN DirectivePreviewLen ELSE Len(directive))
               \o <<"...">>
        ELSE <<>>)
    \o <<"\n\nAsk me anything about your data!">>

\* POST /api/connect with all required fields and a connection test that
\* succeeds, the whole request at once
\* connect without line 46: the schema cache is left as it was
connected_keeping_cache(sess, database, directive) ==
  [sess EXCEPT
     !.db_config = [database |-> database],
     !.db_connected = TRUE,
     !.chatbot_directive = IF directive # <<>> THEN directive ELSE @,
     !.messages = << Message("assistant", WelcomeText(database, directive), 0) >>]

\* the session as connect leaves it (lines 43 to 62)
connected(sess, database, directive) ==
  [sess EXCEPT
     !.db_config = [database |-> database],
     !.db_connected = TRUE,
     !.schema_cache = NoSchema,
     !.chatbot_directive = IF directive # <<>> THEN directive ELSE @,
     !.messages = << Message("assistant", WelcomeText(database, directive), 0) >>]

connect ==
  \E database \in Databases, directive \in Directives :
    /\ \A r \in Requests : req[r].pc = "idle"
    /\ store' = connected(store, database, directive)
    /\ live' = {}
    /\ supplied' = IF directive # <<>> THEN directive ELSE None
    /\ UNCHANGED <<req, turns, vvars, nvars, avars, hvars>>

\* POST /api/connect that is refused: a required field is missing, or
\* test_connection fails
connect_refused ==
  /\ UNCHANGED vars

\* POST /api/disconnect, the whole request at once
\* disconnect without line 86: the history is left as it was
disconnected_keeping_history(sess) ==
  [sess EXCEPT
     !.db_config = NoConfig,
     !.db_connected = FALSE,
     !.chatbot_directive = None,
     !.schema_cache = NoSchema]

\* disconnect without line 83: the connection descriptor is left as it was
disconnected_keeping_config(sess) ==
  [sess EXCEPT
     !.db_connected = FALSE,
     !.chatbot_directive = None,
     !.messages = <<>>,
     !.schema_cache = NoSchema]

\* the session as disconnect leaves it (lines 83 to 87)
disconnected(sess) ==
  [sess EXCEPT
     !.db_config = NoConfig,
     !.db_connected = FALSE,
     !.chatbot_directive = None,
     !.messages = <<>>,
     !.schema_cache = NoSchema]

disconnect ==
  /\ \A r \in Requests : req[r].pc = "idle"
  /\ store' = disconnected(store)
  /\ live' = {}
  /\ supplied' = None
  /\ UNCHANGED <<req, turns, vvars, nvars, avars, hvars>>

\* DELETE /api/chat/clear
clear_history ==
  /\ \A r \in Requests : req[r].pc = "idle"
  /\ store' = [store EXCEPT !.messages = <<>>]
  /\ live' = {}
  /\ UNCHANGED <<req, turns, supplied, vvars, nvars, avars, hvars>>

\* GET /api/chat/history: reads the history
get_history ==
  /\ \A r \in Requests : req[r].pc = "idle"
  /\ UNCHANGED vars

\* POST /api/directive with a directive that is not empty after strip
set_directive ==
  \E directive \in Directives :
    /\ \A r \in Requests : req[r].pc = "idle"
    /\ directive # <<>>
    /\ store' = [store EXCEPT !.chatbot_directive = directive]
    /\ supplied' = directive
    /\ UNCHANGED <<req, turns, live, vvars, nvars, avars, hvars>>

\* POST /api/directive refused: the directive is empty
set_directive_refused ==
  \E directive \in Directives :
    /\ directive = <<>>
    /\ UNCHANGED vars

\* GET /api/directive: reads the directive
get_directive ==
  /\ \A r \in Requests : req[r].pc = "idle"
  /\ UNCHANGED vars

\* DELETE /api/directive
clear_directive ==
  /\ \A r \in Requests : req[r].pc = "idle"
  /\ store' = [store EXCEPT !.chatbot_directive = None]
  /\ supplied' = None
  /\ UNCHANGED <<req, turns, live, vvars, nvars, avars, hvars>>

\* `if not schema_info: schema_info = get_database_schema_info(db_config)`
fetched_schema(cached, db_config) ==
  IF cached = NoSchema THEN [of |-> db_config.database] ELSE cached

\* GET /api/schema with a database connected; get_database_schema_info, called
\* only without a cached schema, returns or raises
get_schema ==
  \E outcome \in {"ok", "raise"} :
    /\ \A r \in Requests : req[r].pc = "idle"
    /\ store.db_connected
    /\ store' = IF outcome = "ok"
                THEN [store EXCEPT !.schema_cache = fetched_schema(@, store.db_config)]
                ELSE store
    /\ UNCHANGED <<req, turns, live, supplied, vvars, nvars, avars, hvars>>

\* GET /api/schema refused: no database connected
get_schema_refused ==
  /\ \A r \in Requests : req[r].pc = "idle"
  /\ ~store.db_connected
  /\ UNCHANGED vars

\* the handler's last lines: the response is appended as the assistant turn
Finish(r, rq, response) ==
  [rq EXCEPT
     !.pc = "handled",
     !.turn.response = response,
     !.sess.messages = Append(@, Message("assistant", response, rq.turn.id))]

\* the last call of the turn, with what it came to
Returned(calls, res) == [calls EXCEPT ![Len(calls)].res = res]

\* the request slot an incoming request takes: the first one that is free
FreeSlot(r) ==
  /\ req[r].pc = "idle"
  /\ \A q \in Requests : q < r => req[q].pc # "idle"

ConnectFirstMessage == <<"Please connect to a database first">>

EmptyMessage == <<"Message cannot be empty">>

\* a refusal that comes after the user message was added to the history
chat_refused_after_append ==
  \E r \in Requests, body \in Bodies :
    /\ \A q \in Requests : req[q].pc = "idle"
    /\ FreeSlot(r)
    /\ ~store.db_connected \/ Strip(body) = <<>>
    /\ store' = [store EXCEPT !.messages = Append(@, Message("user", Strip(body), 0))]
    /\ req' = [req EXCEPT ![r] =
         [pc |-> "refused", sess |-> store',
          turn |-> [NoTurn EXCEPT
                      !.message = Strip(body),
                      !.response = IF ~store.db_connected
                                   THEN ConnectFirstMessage ELSE EmptyMessage]]]
    /\ UNCHANGED <<turns, live, supplied, vvars, nvars, avars, hvars>>

\* POST /api/chat refused with status 400: no database connected, or an empty
\* message
chat_refused ==
  \E r \in Requests, body \in Bodies :
    /\ \A q \in Requests : req[q].pc = "idle"
    /\ FreeSlot(r)
    /\ ~store.db_connected \/ Strip(body) = <<>>
    /\ req' = [req EXCEPT ![r] =
         [pc |-> "refused", sess |-> store,
          turn |-> [NoTurn EXCEPT
                      !.message = Strip(body),
                      !.response = IF ~store.db_connected
                                   THEN ConnectFirstMessage ELSE EmptyMessage]]]
    /\ UNCHANGED <<store, turns, live, supplied, vvars, nvars, avars, hvars>>

\* the refusal goes out; the session was not changed
chat_refusal_sent ==
  \E r \in Requests :
    /\ req[r].pc = "refused"
    /\ req' = [req EXCEPT ![r] = IdleRequest]
    /\ UNCHANGED <<store, turns, live, supplied, vvars, nvars, avars, hvars>>

\* POST /api/chat, from the copy of the session to the planner's call:
\* chat to the call of process_user_query, and process_user_query to
\* llm.invoke in generate_sql_query_with_llm
chat ==
  \E r \in Requests, body \in Bodies, setup \in SetupOutcomes :
    LET user_message == Strip(body)
        sess1 == [store EXCEPT
                    !.messages = Append(@, Message("user", user_message, turns + 1))]
        sanitized_query == sanitize_user_input(user_message)
        cached == sess1.schema_cache
        \* get_db_chain, get_database_schema_info (called only without a
        \* cached schema) or get_llm_client raises
        failed == \/ setup = "db_fail"
                  \/ setup = "schema_fail" /\ cached = NoSchema
                  \/ setup = "llm_fail"
        fetched == setup # "db_fail" /\ setup # "schema_fail" /\ cached = NoSchema
        schema_info == IF fetched THEN [of |-> sess1.db_config.database] ELSE cached
        sess2 == [sess1 EXCEPT !.schema_cache = schema_info]
        fetch == IF setup # "db_fail" /\ cached = NoSchema
                 THEN << Call("schema", sess1.db_config,
                              IF fetched THEN "ok" ELSE "raise") >>
                 ELSE <<>>
        turn == [NoTurn EXCEPT !.id = turns + 1, !.message = user_message,
                               !.sanitized = sanitized_query, !.calls = fetch]
        rq == [pc |-> "planner", sess |-> sess2, turn |-> turn]
    IN /\ FreeSlot(r)
       /\ turns < MaxTurns
       /\ store.db_connected
       /\ user_message # <<>>
       /\ turns' = turns + 1
       /\ live' = live \cup {turns + 1}
       /\ req' = [req EXCEPT ![r] =
            IF sess1.db_config = NoConfig
            THEN Finish(r, [rq EXCEPT !.turn.calls = <<>>, !.sess = sess1],
                        ConnectFirstText)
            ELSE IF failed
            THEN Finish(r, rq, ProcessingErrorText)
            ELSE IF ContextRaises(sess2.messages)
            THEN Finish(r, [rq EXCEPT !.turn.calls =
                              Append(@, Call("planner",
                                             PlannerCallRaising(sanitized_query,
                                                                schema_info,
                                                                sess2.chatbot_directive),
                                             "TypeError"))],
                        ProcessingErrorText)
            ELSE [rq EXCEPT !.turn.calls =
                    Append(@, Call("planner",
                                   PlannerRequest(sanitized_query, schema_info,
                                                  sess2.messages,
                                                  sess2.chatbot_directive),
                                   "pending"))]]
       /\ UNCHANGED <<store, supplied, vvars, nvars, avars, hvars>>

\* the planner's answer comes in: the plan is validated and the turn is
\* routed (process_user_query, steps 2 and 3)
planner_returns ==
  \E r \in Requests, llm \in LlmOutcomes :
    LET rq == req[r]
        query_info == generate_sql_query_with_llm(llm)
        sql_query  == query_info.sql_query
        confidence == query_info.confidence
        reasoning  == query_info.reasoning
        planned    == [rq EXCEPT !.turn.plan = query_info,
                                 !.turn.calls = Returned(@, llm.kind)]
        validated  == [planned EXCEPT !.turn.calls =
                         Append(@, Call("validate", [query |-> sql_query],
                                        IF is_read_only_query(sql_query).ok
                                        THEN "accepted" ELSE "rejected"))]
        checked    == IF Truthy(sql_query) THEN validated ELSE planned
    IN /\ rq.pc = "planner"
       /\ req' = [req EXCEPT ![r] =
            IF RejectsPlan(sql_query)
            THEN Finish(r, validated, RejectNotice(is_read_only_query(sql_query)))
            ELSE IF ShouldExecute(sql_query, confidence)
            THEN [checked EXCEPT
                    !.pc = "executor",
                    !.turn.calls =
                       Append(@, Call("executor", [query |-> sql_query], "pending"))]
            ELSE Finish(r, checked, LowConfidenceResponse(confidence, reasoning))]
       /\ UNCHANGED <<store, turns, live, supplied, vvars, nvars, avars, hvars>>

\* db.run comes back: rows go to the answer compiler, an exception to the
\* fallback agent, and nothing ends the turn (process_user_query, step 4)
executor_returns ==
  \E r \in Requests, exec \in ExecOutcomes :
    LET rq == req[r]
        back == [rq EXCEPT !.turn.sql_result =
                              IF exec.kind = "raise" THEN @ ELSE exec.text,
                           !.turn.calls =
                   Returned(@, IF exec.kind = "raise" THEN "raise"
                               ELSE IF HasRows(exec.text) THEN "rows" ELSE "empty")]
    IN /\ rq.pc = "executor"
       /\ req' = [req EXCEPT ![r] =
            IF exec.kind = "raise"
            THEN [back EXCEPT
                    !.pc = "agent",
                    !.turn.calls =
                       Append(@, Call("agent",
                                      [input |-> SecureQuery(rq.turn.sanitized)],
                                      "pending"))]
            ELSE IF HasRows(exec.text)
            THEN [back EXCEPT
                    !.pc = "answer",
                    !.turn.calls =
                       Append(@, Call("answer",
                                      AnswerRequest(rq.turn.sanitized,
                                                    clean_sql_results(exec.text),
                                                    rq.sess.chatbot_directive),
                                      "pending"))]
            ELSE Finish(r, back, NoResultsText)]
       /\ UNCHANGED <<store, turns, live, supplied, vvars, nvars, avars, hvars>>

\* the answer compiler comes back (generate_natural_language_response)
answer_returns ==
  \E r \in Requests, llm \in AnswerOutcomes :
    LET rq == req[r]
        cleaned_result == rq.turn.calls[Len(rq.turn.calls)].arg.result
    IN /\ rq.pc = "answer"
       /\ req' = [req EXCEPT ![r] =
            Finish(r, [rq EXCEPT !.turn.calls = Returned(@, llm.kind)],
                   generate_natural_language_response(cleaned_result, llm))]
       /\ UNCHANGED <<store, turns, live, supplied, vvars, nvars, avars, hvars>>

\* the fallback agent comes back (fallback_to_sql_agent)
agent_returns ==
  \E r \in Requests, agent \in AgentOutcomes :
    LET rq == req[r]
    IN /\ rq.pc = "agent"
       /\ req' = [req EXCEPT ![r] =
            Finish(r, [rq EXCEPT !.turn.calls = Returned(@, agent.kind),
                                 !.turn.agent_output = agent.text],
                   fallback_to_sql_agent(agent))]
       /\ UNCHANGED <<store, turns, live, supplied, vvars, nvars, avars, hvars>>

\* the response of a chat request goes out: its copy of the session is
\* written to the store
chat_save ==
  \E r \in Requests :
    /\ req[r].pc = "handled"
    /\ store' = req[r].sess
    /\ req' = [req EXCEPT ![r] = IdleRequest]
    /\ UNCHANGED <<turns, live, supplied, vvars, nvars, avars, hvars>>

Next ==
  \/ connect
  \/ connect_refused
  \/ disconnect
  \/ chat_refused
  \/ chat_refusal_sent
  \/ chat
  \/ planner_returns
  \/ executor_returns
  \/ answer_returns
  \/ agent_returns
  \/ chat_save

Spec == Init /\ [][Next]_vars

\* a chat request that comes in while no other is under way
chat_alone ==
  /\ \A r \in Requests : req[r].pc = "idle"
  /\ chat

\* every route of the API, with one chat request at a time
SessionNext ==
  \/ connect
  \/ connect_refused
  \/ disconnect
  \/ clear_history
  \/ get_history
  \/ set_directive
  \/ set_directive_refused
  \/ get_directive
  \/ clear_directive
  \/ get_schema
  \/ get_schema_refused
  \/ chat_refused
  \/ chat_refusal_sent
  \/ chat_alone
  \/ planner_returns
  \/ executor_returns
  \/ answer_returns
  \/ agent_returns
  \/ chat_save

SpecSession == Init /\ [][SessionNext]_vars

----------------------------------------------------------------------------
(* The validator applied to bounded query texts.  A text is put together    *)
(* from at most MaxFrags fragments: the sixteen keywords in assorted letter *)
(* case, SELECT, identifier characters, whitespace, a statement terminator  *)
(* and the comment markers.                                                 *)

MaxFrags == 3

QueryFragments ==
  { <<"i","n","s","e","r","t">>, kwUPDATE, <<"D","e","l","e","t","e">>,
    <<"d","R","o","P">>, <<"c","r","e","a","t","e">>, kwALTER,
    <<"t","r","u","n","c","a","t","e">>, <<"R","e","p","l","a","c","e">>,
    <<"m","e","r","g","e">>, kwGRANT, <<"r","e","v","o","k","E">>,
    <<"e","x","e","c">>, <<"E","x","e","c","u","t","e">>, <<"c","a","l","l">>,
    kwLOAD, <<"r","e","n","a","m","e">>,
    kwSELECT, <<"s","e","l","e","c","t">>,
    <<" ","d","e","l","e","t","e","d","_","a","t">>,
    <<" ","c","r","e","a","t","e","d","_","o","n">>,
    <<" ","u","p","d","a","t","e","d">>,
    <<"_">>, <<"d">>, <<" ">>, <<"\n">>, <<";">>,
    <<"-","-">>, <<"/","*">>, <<"*","/">> }

RECURSIVE Flatten(_)
Flatten(fs) == IF fs = <<>> THEN <<>> ELSE Head(fs) \o Flatten(Tail(fs))

\* the query text under test
VText == Flatten(vq)

VInit == Init

VAppend ==
  /\ vpc = "build"
  /\ Len(vq) < MaxFrags
  /\ \E f \in QueryFragments : vq' = Append(vq, f)
  /\ UNCHANGED <<vres, vpc, svars, nvars, avars, hvars>>

VValidate ==
  /\ vpc = "build"
  /\ vres' = is_read_only_query(VText)
  /\ vpc' = "done"
  /\ UNCHANGED <<vq, svars, nvars, avars, hvars>>

VNext == VAppend \/ VValidate

SpecValidate == VInit /\ [][VNext]_vars

----------------------------------------------------------------------------
(* clean_sql_results applied to bounded raw results, and to its own output. *)
(* A raw result is the text db.run returns: str() of a list of row tuples,  *)
(* of at most MaxRows rows of at most MaxCells cells each.  Rows of one     *)
(* cell are also given as a list of rows that are no tuples, and a single   *)
(* cell as a scalar.                                                        *)

MaxRows == 2
MaxCells == 2

CellUpper   == <<"'","A","B","'">>
CellComma   == <<"'","a",",","b","'">>
CellInt     == <<"1">>
CellFloat   == <<"4",".","9","9">>
CellNone    == <<"N","o","n","e">>
CellBytes   == <<"b","'","\\","x","8","9","P","N","G","'">>
CellBytesText == <<"b","'","G","I","F","'">>
CellDecimal == <<"D","e","c","i","m","a","l","(","'","4",".","9","9","'",")">>
CellEncoded == <<"'","\\","\\","x","8","9","'">>

\* the cells as repr() writes them: an upper-case string, a string with a
\* comma, an integer, a float, NULL, bytes of a PNG header, bytes that are
\* printable, a Decimal and a string that holds an encoded byte
CellLiterals ==
  {CellUpper, CellComma, CellInt, CellFloat, CellNone, CellBytes, CellBytesText,
   CellDecimal, CellEncoded}

\* str() of a tuple
RenderRow(cells) ==
  <<"(">> \o (IF Len(cells) = 1 THEN cells[1] \o <<",">>
              ELSE Join(cells, <<",", " ">>)) \o <<")">>

\* str() of the list of rows: the raw result under test
RawResult ==
  <<"[">> \o Join([r \in 1..Len(nrows) |-> RenderRow(nrows[r])], <<",", " ">>) \o <<"]">>

NInit == Init

NAddRow ==
  /\ npc = "build"
  /\ Len(nrows) < MaxRows
  /\ \E c \in CellLiterals : nrows' = Append(nrows, <<c>>)
  /\ UNCHANGED <<nonce, ntwice, npc, svars, vvars, avars, hvars>>

NAddCell ==
  /\ npc = "build"
  /\ nrows # <<>>
  /\ Len(nrows[Len(nrows)]) < MaxCells
  /\ \E c \in CellLiterals :
       nrows' = [nrows EXCEPT ![Len(nrows)] = Append(@, c)]
  /\ UNCHANGED <<nonce, ntwice, npc, svars, vvars, avars, hvars>>

NNormalize ==
  /\ npc = "build"
  /\ nonce' = clean_sql_results(RawResult)
  /\ ntwice' = clean_sql_results(nonce')
  /\ npc' = "done"
  /\ UNCHANGED <<nrows, svars, vvars, avars, hvars>>

\* str() of a list whose rows are no tuples: the rows' single cells
RawFlat ==
  <<"[">> \o Join([r \in 1..Len(nrows) |-> nrows[r][1]], <<",", " ">>) \o <<"]">>

\* the raw result is a list of rows that are no tuples
NNormalizeFlat ==
  /\ npc = "build"
  /\ nrows # <<>>
  /\ \A r \in 1..Len(nrows) : Len(nrows[r]) = 1
  /\ nonce' = clean_sql_results(RawFlat)
  /\ ntwice' = clean_sql_results(nonce')
  /\ npc' = "flat"
  /\ UNCHANGED <<nrows, svars, vvars, avars, hvars>>

\* the raw result is one scalar: the single cell of the single row
NNormalizeScalar ==
  /\ npc = "build"
  /\ Len(nrows) = 1 /\ Len(nrows[1]) = 1
  /\ nonce' = clean_sql_results(nrows[1][1])
  /\ ntwice' = clean_sql_results(nonce')
  /\ npc' = "scalar"
  /\ UNCHANGED <<nrows, svars, vvars, avars, hvars>>

NNext == NAddRow \/ NAddCell \/ NNormalize \/ NNormalizeFlat \/ NNormalizeScalar

SpecNormalize == NInit /\ [][NNext]_vars

----------------------------------------------------------------------------
(* sanitize_user_input applied to bounded user inputs.  An input is put     *)
(* together from at most MaxInputFrags fragments: a statement terminator    *)
(* with and without a keyword after it, UNION and SELECT in mixed letter    *)
(* case, whitespace, a line break, the comment markers and a letter.        *)

MaxInputFrags == 4

InputFragments ==
  { <<";","D","r","o","p">>, <<";">>, <<" ">>, <<"u","n","i","o","n">>,
    <<"S","e","l","e","c","t">>, <<"-","-">>, <<"/","*">>, <<"*","/">>,
    <<"x">>, <<"\n">> }

\* the user input under test
SText == Flatten(sfrags)

SAppend ==
  /\ spc = "build"
  /\ Len(sfrags) < MaxInputFrags
  /\ \E f \in InputFragments : sfrags' = Append(sfrags, f)
  /\ UNCHANGED <<scleaned, spc, svars, vvars, nvars, hvars>>

SSanitize ==
  /\ spc = "build"
  /\ scleaned' = sanitize_user_input(SText)
  /\ spc' = "done"
  /\ UNCHANGED <<sfrags, svars, vvars, nvars, hvars>>

SNext == SAppend \/ SSanitize

SpecSanitize == Init /\ [][SNext]_vars

----------------------------------------------------------------------------
(* The context block built from bounded histories.  A history has at most   *)
(* MaxHistory turns, user and assistant in turn as the chat route appends   *)
(* them.  A turn's text is short, as long as the limit of its role or one   *)
(* character longer, and at most MaxLongTurns turns are not short.  The     *)
(* text of turn i starts with the i-th letter, so that turns are told apart.*)

MaxHistory == 10
MaxLongTurns == 3
ShortLen == 2

LengthClasses == {"short", "at", "over"}

\* the length of a text of the class for the role
ClassLen(role, class) ==
  CASE class = "short" -> ShortLen
    [] class = "at"    -> IF role = "assistant" THEN MaxAssistantLen ELSE MaxUserLen
    [] class = "over"  -> (IF role = "assistant" THEN MaxAssistantLen ELSE MaxUserLen) + 1

\* the text of turn i, of the given length
TurnText(i, len) == [k \in 1..len |-> IF k = 1 THEN LowerLetters[i] ELSE "a"]

LongTurns(h) == {i \in 1..Len(h) : Len(h[i].content) > ShortLen}

HAddTurn ==
  /\ hpc = "build"
  /\ Len(hist) < MaxHistory
  /\ \E role \in {"user", "assistant"}, class \in LengthClasses :
       /\ hist # <<>> => role # hist[Len(hist)].role
       /\ class # "short" => Cardinality(LongTurns(hist)) < MaxLongTurns
       /\ hist' = Append(hist, [role |-> role,
                                content |-> TurnText(Len(hist) + 1, ClassLen(role, class))])
  /\ UNCHANGED <<hcontext, hpc, svars, vvars, nvars, avars>>

HBuild ==
  /\ hpc = "build"
  /\ hcontext' = BuildContext(hist)
  /\ hpc' = "done"
  /\ UNCHANGED <<hist, svars, vvars, nvars, avars>>

HNext == HAddTurn \/ HBuild

SpecContext == Init /\ [][HNext]_vars

----------------------------------------------------------------------------
(* Properties of the pipeline controller, checked under Spec.               *)

\* the calls of a turn that went to the collaborator `to`
CallsTo(t, to) == {i \in 1..Len(t.calls) : t.calls[i].to = to}

\* the turn's plan came from the planner (the planner's call has returned)
Planned(t) ==
  \E i \in CallsTo(t, "planner") : t.calls[i].res \in {"json", "nojson", "raise"}

\* C1: db.run is invoked only for a plan with a query text, which the
\* validator accepted as it is in the same turn, and with confidence above
\* 0.4; a plan whose query the validator rejects ends the turn with the
\* security notice and without any call of db.run, whatever its confidence.
C1_ExecutorOnlyAfterAcceptance ==
  \A r \in Requests :
    LET t == req[r].turn
    IN /\ \A i \in CallsTo(t, "executor") :
            /\ t.plan.sql_query # None
            /\ t.calls[i].arg.query = t.plan.sql_query
            /\ \E j \in 1..(i-1) :
                 t.calls[j] = Call("validate", [query |-> t.plan.sql_query], "accepted")
            /\ is_read_only_query(t.plan.sql_query).ok
            /\ t.plan.confidence > 4
       /\ (Planned(t) /\ t.plan.sql_query \notin {None, <<>>}
             /\ ~is_read_only_query(t.plan.sql_query).ok) =>
            /\ req[r].pc = "handled"
            /\ StartsWith(t.response, <<"[lock] ">>)
            /\ t.response = RejectNotice(is_read_only_query(t.plan.sql_query))
            /\ CallsTo(t, "executor") = {}

\* one request has called db.run, and another ended with the security notice
\* for a rejected plan of high confidence
C1_Witness ==
  \E r1, r2 \in Requests :
    /\ CallsTo(req[r1].turn, "executor") # {}
    /\ req[r2].pc = "handled"
    /\ req[r2].turn.plan = Plan(BadQuery, 9, ReasonMissing)
    /\ StartsWith(req[r2].turn.response, <<"[lock] ">>)

\* C2: process_user_query returns a text on every exit path, never None.
C2_AlwaysReturnsText ==
  \A r \in Requests :
    req[r].pc = "handled" => req[r].turn.response # None

\* C3: a plan that is not executed, with no query or an accepted one and a
\* confidence of at most 0.4, is answered by its confidence bucket: the
\* security notice or the clarification request at 0.0, the generic
\* please-clarify message above 0.0 and up to 0.4.
C3_LowConfidenceBuckets ==
  \A r \in Requests :
    LET t == req[r].turn
        q == t.plan.sql_query
    IN (/\ req[r].pc = "handled"
        /\ Planned(t)
        /\ q \in {None, <<>>} \/ is_read_only_query(q).ok
        /\ t.plan.confidence <= 4)
       => t.response =
            IF t.plan.confidence = 0 /\ IsModificationRequest(t.plan.reasoning)
            THEN SecurityNotice(t.plan.reasoning)
            ELSE IF t.plan.confidence = 0
            THEN Clarification(CleanReasoning(t.plan.reasoning))
            ELSE PleaseClarifyText

\* C4: a planner response of confidence 0.0 is acted on without its query
\* text: the turn ends as it does for no query and the same reasoning.
C4_ZeroConfidenceDropsQuery ==
  \A r \in Requests :
    LET t == req[r].turn
    IN (req[r].pc = "handled" /\ Planned(t) /\ t.plan.confidence = 0)
       => t.response =
            IF IsModificationRequest(t.plan.reasoning)
            THEN SecurityNotice(t.plan.reasoning)
            ELSE Clarification(CleanReasoning(t.plan.reasoning))

\* C8: when db.run returns an empty result or the text "[]", the turn ends
\* with the no-results message, and neither the answer compiler nor the
\* fallback agent is called in it.
C8_EmptyResultEndsTurn ==
  \A r \in Requests :
    LET t == req[r].turn
    IN t.sql_result \in {<<>>, <<"[","]">>}
       => /\ req[r].pc = "handled"
          /\ t.response = NoResultsText
          /\ CallsTo(t, "answer") = {}
          /\ CallsTo(t, "agent") = {}

\* db.run has returned "[]" in one turn and an empty text in another
C8_Witness ==
  \E r1, r2 \in Requests :
    /\ req[r1].turn.sql_result = <<"[","]">>
    /\ req[r2].turn.sql_result = <<>>
    /\ req[r1].turn.response = NoResultsText

\* C9: the user's text of the current turn reaches the planner (as the
\* question and in the context block), the answer compiler and the fallback
\* agent only as the output of sanitize_user_input.
C9_OnlySanitizedTextUsed ==
  \A r \in Requests :
    LET t == req[r].turn
        clean == sanitize_user_input(t.message)
    IN /\ \A i \in CallsTo(t, "planner") :
            /\ t.calls[i].arg.question = clean
            /\ t.calls[i].arg.context # <<>> =>
                 t.calls[i].arg.context[Len(t.calls[i].arg.context)]
                   = [role |-> "User", content |-> Truncated(clean, MaxUserLen)]
       /\ \A i \in CallsTo(t, "answer") : t.calls[i].arg.question = clean
       /\ \A i \in CallsTo(t, "agent") : t.calls[i].arg.input = SecureQuery(clean)

\* C10: once no chat request is under way, the history holds, for every chat
\* request accepted since the last connect, its user turn directly followed
\* by its own reply.
C10_NoTurnLost ==
  (\A r \in Requests : req[r].pc = "idle") =>
    \A n \in live :
      \E i \in 1..(Len(store.messages) - 1) :
        /\ store.messages[i].role = "user"
        /\ store.messages[i].turn = n
        /\ store.messages[i+1].role = "assistant"
        /\ store.messages[i+1].turn = n

\* C19: the planner step never raises and always gives a plan; when its
\* language model raises or answers without JSON, the plan has no query text,
\* confidence 0.0 and the error as its reasoning.
C19_PlannerAlwaysReturnsPlan ==
  \A r \in Requests :
    LET t == req[r].turn
    IN \A i \in CallsTo(t, "planner") :
         /\ t.calls[i].res # "TypeError"
         /\ t.calls[i].res \in {"nojson", "raise"} =>
              /\ t.plan.sql_query = None
              /\ t.plan.confidence = 0
              /\ t.plan.reasoning # <<>>

\* C20: when the planner's language model raises or answers without JSON,
\* the turn's response is not the security notice and does not hold the
\* exception's message.
C20_PlannerFailureNotSurfaced ==
  \A r \in Requests :
    LET t == req[r].turn
    IN \A i \in CallsTo(t, "planner") :
         (req[r].pc = "handled" /\ t.calls[i].res \in {"nojson", "raise"}) =>
           /\ ~StartsWith(t.response, SecurityNoticeHead)
           /\ t.calls[i].res = "raise" =>
                ~Contains(t.response, From(t.plan.reasoning, Len(ErrorPrefix) + 1))

----------------------------------------------------------------------------
(* Properties of the session, checked under SpecSession.                    *)

IsPrefix(a, b) == Len(a) <= Len(b) /\ SubSeq(b, 1, Len(a)) = a

\* C11: the history is append-only: every step of the API leaves the turns
\* the history holds in place and unchanged, and may only add turns after them.
C11_HistoryAppendOnly ==
  [][IsPrefix(store.messages, store'.messages)]_vars

\* C12: the schema cache is written only when it is empty, every connect and
\* every disconnect empties it, and a cache that is not empty holds the schema
\* of the database the session is connected to; so does the schema every
\* planner request carries.
C12_SchemaCacheWriteOnce ==
  [][/\ (store.schema_cache # NoSchema /\ store'.schema_cache # store.schema_cache)
          => store'.schema_cache = NoSchema
     /\ (connect \/ disconnect) => store'.schema_cache = NoSchema
     /\ store'.schema_cache # NoSchema =>
          /\ store'.db_connected
          /\ store'.schema_cache = [of |-> store'.db_config.database]
     /\ \A r \in Requests :
          \A i \in CallsTo(req'[r].turn, "planner") :
            req'[r].turn.calls[i].arg.schema = [of |-> store'.db_config.database]
    ]_vars

\* the cache holds the schema of db2 while a turn that was planned with the
\* schema of db2 is handled, after an earlier turn
C12_Witness ==
  /\ turns = MaxTurns
  /\ store.schema_cache = [of |-> "db2"]
  /\ \E r \in Requests :
       /\ req[r].pc = "handled"
       /\ CallsTo(req[r].turn, "schema") = {}
       /\ \E i \in CallsTo(req[r].turn, "planner") :
            req[r].turn.calls[i].arg.schema = [of |-> "db2"]

\* C13: disconnect leaves the session with no connection descriptor, not
\* connected, with an empty history, no directive and no cached schema; a chat
\* request that comes in while the session is not connected is refused with
\* the connect-first message, calls no collaborator and changes nothing.
C13_DisconnectClearsAll ==
  [][/\ disconnect =>
          /\ store'.db_config = NoConfig
          /\ ~store'.db_connected
          /\ store'.messages = <<>>
          /\ store'.chatbot_directive = None
          /\ store'.schema_cache = NoSchema
     /\ \A r \in Requests :
          (~store.db_connected /\ req[r].pc = "idle" /\ req'[r].pc # "idle") =>
            /\ req'[r].pc = "refused"
            /\ req'[r].turn.response = ConnectFirstMessage
            /\ req'[r].turn.calls = <<>>
            /\ store' = store
    ]_vars

\* a chat request is refused with the connect-first message on a session that
\* has handled a chat turn and was then disconnected
C13_Witness ==
  /\ turns > 0
  /\ store = EmptySession
  /\ \E r \in Requests :
       /\ req[r].pc = "refused"
       /\ req[r].turn.message # <<>>
       /\ req[r].turn.response = ConnectFirstMessage

\* C14: the directive that every planner request and every answer request
\* carries is the one supplied for the current connection, at connect or by a
\* later set-directive, and none when none was supplied or it was cleared.
C14_DirectiveOfCurrentConnection ==
  \A r \in Requests :
    LET t == req[r].turn
    IN \A i \in CallsTo(t, "planner") \cup CallsTo(t, "answer") :
         t.calls[i].arg.directive = supplied

----------------------------------------------------------------------------
(* Properties of the validator, checked under SpecValidate.                 *)

Denylist ==
  {kwINSERT, kwUPDATE, kwDELETE, kwDROP, kwCREATE, kwALTER, kwTRUNCATE,
   kwREPLACE, kwMERGE, kwGRANT, kwREVOKE, kwEXEC, kwEXECUTE, kwCALL, kwLOAD,
   kwRENAME}

\* w stands in text as a whole word, in any letter case: neither the
\* character before it nor the one after it is a letter, a digit or "_"
HasWholeWord(text, w) ==
  \E i \in 1..Len(text) :
    /\ i + Len(w) - 1 <= Len(text)
    /\ \A k \in 1..Len(w) : UpperChar(text[i + k - 1]) = w[k]
    /\ i = 1 \/ ~IsWordChar(text[i - 1])
    /\ i + Len(w) - 1 = Len(text) \/ ~IsWordChar(text[i + Len(w)])

\* w stands in text in any letter case, as a whole word or inside a longer one
HasSubstring(text, w) ==
  \E i \in 1..Len(text) :
    /\ i + Len(w) - 1 <= Len(text)
    /\ \A k \in 1..Len(w) : UpperChar(text[i + k - 1]) = w[k]

\* C5: a query text that holds a denylisted keyword as a whole word, in any
\* letter case, is rejected, also when it starts with SELECT.
C5_KeywordRejected ==
  (vpc = "done" /\ \E w \in Denylist : HasWholeWord(VText, w)) => ~vres.ok

\* a text that starts with SELECT and goes on with "; drop" has been rejected
C5_Witness ==
  /\ vpc = "done"
  /\ vq = << kwSELECT, <<";">>, <<"d","R","o","P">> >>
  /\ ~vres.ok

\* C6: a query text that starts with SELECT and holds denylisted keywords
\* only inside longer identifiers, never as whole words, is accepted.
C6_IdentifierAccepted ==
  (/\ vpc = "done"
   /\ Len(VText) >= 6 /\ \A k \in 1..6 : UpperChar(VText[k]) = kwSELECT[k]
   /\ \A w \in Denylist : ~HasWholeWord(VText, w))
  => vres.ok

\* "SELECT deleted_at created_on", with DELETE and CREATE inside identifiers,
\* has been accepted
C6_Witness ==
  /\ vpc = "done"
  /\ vq = << kwSELECT, <<" ","d","e","l","e","t","e","d","_","a","t">>,
             <<" ","c","r","e","a","t","e","d","_","o","n">> >>
  /\ \E w \in Denylist : HasSubstring(VText, w)
  /\ vres.ok

\* position i of text lies in a line comment: a "--" stands at or before it on
\* the same line
InLineComment(text, i) ==
  \E j \in 1..i :
    /\ j + 1 <= Len(text) /\ text[j] = "-" /\ text[j + 1] = "-"
    /\ \A m \in j..i : text[m] # "\n"

\* the text without its line comments
WithoutLineComments(text) ==
  SelectSeq([i \in 1..Len(text) |-> IF InLineComment(text, i) THEN "" ELSE text[i]],
            LAMBDA c : c # "")

\* the text without its block comments, read from position i on; a "/*" that
\* is never closed stays
RECURSIVE WithoutBlockComments(_, _)
WithoutBlockComments(text, i) ==
  IF i > Len(text) THEN <<>>
  ELSE IF /\ i + 3 <= Len(text) /\ text[i] = "/" /\ text[i + 1] = "*"
          /\ \E j \in (i + 2)..(Len(text) - 1) : text[j] = "*" /\ text[j + 1] = "/"
       THEN LET j == CHOOSE k \in (i + 2)..(Len(text) - 1) :
                       /\ text[k] = "*" /\ text[k + 1] = "/"
                       /\ \A m \in (i + 2)..(k - 1) : ~(text[m] = "*" /\ text[m + 1] = "/")
            IN WithoutBlockComments(text, j + 2)
       ELSE <<text[i]>> \o WithoutBlockComments(text, i + 1)

\* the content of a query text: its line comments removed, then its block
\* comments, then trimmed
Content(text) == Strip(WithoutBlockComments(WithoutLineComments(text), 1))

C17_CommentsInert ==
  (/\ vpc = "done"
   /\ Len(VText) >= 6 /\ \A k \in 1..6 : UpperChar(VText[k]) = kwSELECT[k]
   /\ \A w \in Denylist : ~HasWholeWord(Content(VText), w))
  => vres.ok

\* the content of the text holds a ";" with more of a statement after it
MultipleStatements(text) ==
  \E i \in 1..Len(Content(text)) :
    /\ Content(text)[i] = ";"
    /\ \E j \in (i + 1)..Len(Content(text)) :
         ~IsSpace(Content(text)[j]) /\ Content(text)[j] # ";"

\* C18: a query text that holds more than one statement is rejected.
C18_MultipleStatementsRejected ==
  (vpc = "done" /\ MultipleStatements(VText)) => ~vres.ok

----------------------------------------------------------------------------
(* Properties of the normalizer, checked under SpecNormalize.               *)

\* s.split(sep)
RECURSIVE Split(_, _)
Split(s, sep) ==
  IF IndexOf(s, sep) = 0 THEN <<s>>
  ELSE <<SubSeq(s, 1, IndexOf(s, sep) - 1)>>
         \o Split(From(s, IndexOf(s, sep) + Len(sep)), sep)

\* the cells that are bytes
BytesCells == {CellBytes, CellBytesText}

\* how a cell that is not binary is shown
Shown(cell) ==
  CASE cell = CellUpper   -> <<"A","b">>
    [] cell = CellComma   -> <<"a",",","b">>
    [] cell = CellInt     -> <<"1",".","0">>
    [] cell = CellFloat   -> <<"4",".","9","9">>
    [] cell = CellNone    -> <<"N","U","L","L">>
    [] cell = CellDecimal -> <<"4",".","9","9">>

HasBytesCell == \E r \in 1..Len(nrows) : \E c \in 1..Len(nrows[r]) : nrows[r][c] \in BytesCells

HasDecimalCell == \E r \in 1..Len(nrows) : \E c \in 1..Len(nrows[r]) : nrows[r][c] = CellDecimal

\* the output has no raw byte content, one line per row and one field per
\* cell; every bytes cell, and every string of encoded bytes, is the
\* placeholder token and every other cell is kept in its place
BinaryCellsRedacted ==
  /\ ~Contains(nonce, <<"\\","x">>)
  /\ ~Contains(nonce, <<"b","'">>)
  /\ ~Contains(nonce, <<"G","I","F">>)
  /\ Len(Split(nonce, <<"\n">>)) = Len(nrows)
  /\ \A r \in 1..Len(nrows) :
       LET fields == Split(Split(nonce, <<"\n">>)[r], <<" ","|"," ">>)
       IN /\ Len(fields) = Len(nrows[r])
          /\ \A c \in 1..Len(nrows[r]) :
               fields[c] = IF nrows[r][c] \in BytesCells \cup {CellEncoded}
                           THEN <<"[","B","i","n","a","r","y"," ","D","a","t","a",
                                  " ","-"," ","I","m","a","g","e","/","B","L","O",
                                  "B","]">>
                           ELSE Shown(nrows[r][c])

\* C15: for a raw result that is a list of row tuples and holds a binary
\* cell, the output holds no raw byte content: every binary cell is replaced
\* by the placeholder token and the other cells of the same row are kept.
C15_BinaryCellsRedacted ==
  (npc = "done" /\ HasBytesCell) => BinaryCellsRedacted

\* the same for the raw results that ast.literal_eval parses, those with no
\* Decimal cell: on these the replacement is made
BinaryCellsRedactedWhenParsed ==
  (npc = "done" /\ HasBytesCell /\ ~HasDecimalCell) => BinaryCellsRedacted

\* the rows ('AB', b'\x89PNG') and (1, None) have been normalized: the bytes
\* are the placeholder and the other cells are kept
ParsedRowsRedacted ==
  /\ npc = "done"
  /\ nrows = << <<CellUpper, CellBytes>>, <<CellInt, CellNone>> >>
  /\ Contains(nonce, BinaryPlaceholder)
  /\ Split(nonce, <<"\n">>)[2] = <<"1",".","0"," ","|"," ","N","U","L","L">>

\* C16: clean_sql_results applied to its own output gives that output again.
C16_Idempotent ==
  npc = "done" => ntwice = nonce

----------------------------------------------------------------------------
(* Properties of the collaborators' failures, checked under Spec.           *)

\* the fixed texts with which the controller asks the user to try again
ApologyTexts ==
  {ProcessingErrorText, AgentTroubleText, AgentEmptyText, PleaseClarifyText,
   NoResultsText}

\* C21: when the answer compiler's call raises, the call is not made again
\* and the turn's response is one of the controller's apologies.
C21_AnswerFailureApologized ==
  \A r \in Requests :
    LET t == req[r].turn
    IN (req[r].pc = "handled" /\ \E i \in CallsTo(t, "answer") : t.calls[i].res = "raise")
         => /\ Cardinality(CallsTo(t, "answer")) = 1
            /\ t.response \in ApologyTexts

ShownOutput(output) ==
  IF Contains(output, <<"[","(">>) \/ Contains(output, <<"D","e","c","i","m","a","l","(">>)
  THEN clean_sql_results(output)
  ELSE output

\* C23: the fallback agent's output gets the keyword scan of a primary
\* query: an output that holds a keyword of the validator's denylist as a
\* whole word gives the security alert, and an output that holds none of
\* them, not even inside a longer word, is returned.
C23_AgentOutputScannedLikeQuery ==
  \A r \in Requests :
    LET t == req[r].turn
    IN (req[r].pc = "handled" /\ \E i \in CallsTo(t, "agent") : t.calls[i].res = "text")
         => /\ (\E w \in Denylist : HasWholeWord(t.agent_output, w))
                 => t.response = AgentAlertText
            /\ (\A w \in Denylist : ~HasSubstring(t.agent_output, w))
                 => t.response = IF ShownOutput(t.agent_output) # <<>>
                                 THEN ShownOutput(t.agent_output)
                                 ELSE AgentEmptyText

----------------------------------------------------------------------------
(* Properties of the sanitizer, checked under SpecSanitize.                 *)

InjectionKeywords == {kwDROP, kwDELETE, kwUPDATE, kwINSERT}

\* the last position of a statement terminator followed by one of the four
\* keywords that starts at i, 0 if none does
TerminatorEnd(s, i) ==
  IF s[i] = ";" /\ \E w \in InjectionKeywords : AtNoCase(s, w, i + 1 + SpacesFrom(s, i + 1))
  THEN i + SpacesFrom(s, i + 1)
         + Len(CHOOSE w \in InjectionKeywords : AtNoCase(s, w, i + 1 + SpacesFrom(s, i + 1)))
  ELSE 0

\* the last position of a UNION SELECT that starts at i, 0 if none does
UnionEnd(s, i) ==
  IF /\ AtNoCase(s, kwUNION, i)
     /\ SpacesFrom(s, i + 5) >= 1
     /\ AtNoCase(s, kwSELECT, i + 5 + SpacesFrom(s, i + 5))
  THEN i + 4 + SpacesFrom(s, i + 5) + 6
  ELSE 0

\* the last position of a trailing line comment that starts at i, 0 if none
\* does: "--" at the end of the input or before whitespace, with nothing but
\* whitespace after the line it stands on
LineCommentEnd(s, i) ==
  IF /\ At(s, <<"-","-">>, i)
     /\ i + 2 > Len(s) \/ IsSpace(s[i + 2])
     /\ \A k \in (i + 2)..Len(s) : s[k] = "\n" => \A m \in k..Len(s) : IsSpace(s[m])
  THEN Len(s)
  ELSE 0

\* the last position of a block comment that starts at i, 0 if none does
BlockCommentEnd(s, i) ==
  IF At(s, <<"/","*">>, i) /\ \E j \in (i + 2)..Len(s) : At(s, <<"*","/">>, j)
  THEN (CHOOSE j \in (i + 2)..Len(s) :
          At(s, <<"*","/">>, j) /\ \A m \in (i + 2)..(j - 1) : ~At(s, <<"*","/">>, m)) + 1
  ELSE 0

\* the positions of s that lie in an injection pattern or in a comment
Dangerous(s) ==
  {k \in 1..Len(s) :
     \E i \in 1..k : \/ k <= TerminatorEnd(s, i)
                     \/ k <= UnionEnd(s, i)
                     \/ k <= LineCommentEnd(s, i)
                     \/ k <= BlockCommentEnd(s, i)}

\* s without the positions in the set gone
Without(s, gone) ==
  LET F[i \in 0..Len(s)] ==
        IF i = 0 THEN <<>>
        ELSE IF i \in gone THEN F[i - 1] ELSE Append(F[i - 1], s[i])
  IN F[Len(s)]

\* a is what is left of b when some of its characters are taken out
RECURSIVE IsSubsequence(_, _)
IsSubsequence(a, b) ==
  IF a = <<>> THEN TRUE
  ELSE IF b = <<>> THEN FALSE
  ELSE IF a[1] = b[1] THEN IsSubsequence(Tail(a), Tail(b))
  ELSE IsSubsequence(a, Tail(b))

\* C24: every statement terminator followed by DROP, DELETE, UPDATE or
\* INSERT, every UNION SELECT, every trailing line comment and every block
\* comment of the input is gone from the output, in any letter case; an input
\* that holds none of them is returned unchanged.
C24_SanitizeRemovesPatterns ==
  spc = "done" =>
    /\ IsSubsequence(scleaned, Without(SText, Dangerous(SText)))
    /\ Dangerous(SText) = {} => scleaned = SText

\* the length of the first pattern of the list that matches at i, 0 if none
MatchAt(s, i) ==
  IF \E n \in 1..Len(dangerous_patterns) : MatchLen(dangerous_patterns[n], s, i) > 0
  THEN MatchLen(dangerous_patterns[
         CHOOSE n \in 1..Len(dangerous_patterns) :
           /\ MatchLen(dangerous_patterns[n], s, i) > 0
           /\ \A m \in 1..(n - 1) : MatchLen(dangerous_patterns[m], s, i) = 0], s, i)
  ELSE 0

\* one pass over the input from position i: the leftmost match is removed and
\* the pass goes on after it; what a removal brings together is not looked at
RECURSIVE OnePass(_, _)
OnePass(s, i) ==
  IF i > Len(s) THEN <<>>
  ELSE IF MatchAt(s, i) > 0 THEN OnePass(s, i + MatchAt(s, i))
  ELSE <<s[i]>> \o OnePass(s, i + 1)

\* C25: sanitize is one pass over its input: the output is the input without
\* the matches found in the input itself, and text that a removal brings
\* together is not removed by any rule.
C25_SanitizeSinglePass ==
  spc = "done" => scleaned = OnePass(SText, 1)

----------------------------------------------------------------------------
(* Properties of the context block, checked under SpecContext.              *)

Ellipsis == <<".",".",".">>

\* C26: the context block is empty for a history of fewer than 2 turns; for
\* a longer one it holds the last 8 turns, or all of them if there are fewer,
\* in order, a user's text cut to 200 characters and an assistant's to 500,
\* with the ellipsis appended exactly when the text was longer than that.
C26_ContextWindow ==
  hpc = "done" =>
    IF Len(hist) < 2 THEN hcontext = <<>>
    ELSE LET n == IF Len(hist) < 8 THEN Len(hist) ELSE 8
         IN /\ Len(hcontext) = n
            /\ \A i \in 1..n :
                 LET msg == hist[Len(hist) - n + i]
                     limit == IF msg.role = "user" THEN 200 ELSE 500
                 IN /\ hcontext[i].role = IF msg.role = "user" THEN "User" ELSE "Assistant"
                    /\ hcontext[i].content =
                         IF Len(msg.content) > limit
                         THEN SubSeq(msg.content, 1, limit) \o Ellipsis
                         ELSE msg.content

\* the block of a history of 10 turns holds 8 lines, from turn 3 on, with a
\* user's text that was cut, an assistant's text that was cut and an
\* assistant's text of 500 characters that was not
C26_Witness ==
  /\ hpc = "done"
  /\ Len(hist) = 10
  /\ Len(hcontext) = 8
  /\ hcontext[1].content[1] = "c"
  /\ \E i \in 1..8 : hcontext[i].role = "User" /\ Len(hcontext[i].content) = 203
  /\ \E i \in 1..8 : hcontext[i].role = "Assistant" /\ Len(hcontext[i].content) = 503
  /\ \E i \in 1..8 : hcontext[i].role = "Assistant" /\ Len(hcontext[i].content) = 500

----------------------------------------------------------------------------
(* Rows of the normalizer's output, checked under SpecNormalize.            *)

\* the number of lines of a text, none for the empty text
LineCount(text) == IF text = <<>> THEN 0 ELSE Len(Split(text, <<"\n">>))

\* C27: every row of the raw result is one row of the output: a result of n
\* rows gives n lines, also when its rows are no tuples and when it is a
\* single scalar.
C27_RowsPreserved ==
  npc \in {"done", "flat", "scalar"} => LineCount(nonce) = Len(nrows)

----------------------------------------------------------------------------
(* Further properties of the session, checked under SpecSession.            *)

\* C28: the session is marked connected exactly when it holds a connection
\* descriptor, so an accepted chat request finds the descriptor and is never
\* answered with the request to connect first.
C28_ConnectedIffDescriptor ==
  /\ store.db_connected <=> store.db_config # NoConfig
  /\ \A r \in Requests :
       req[r].pc \notin {"idle", "refused"} =>
         /\ req[r].sess.db_config # NoConfig
         /\ req[r].turn.response # ConnectFirstText

\* a chat request was accepted after a connect and works with the descriptor
C28_Witness ==
  \E r \in Requests :
    /\ req[r].pc = "planner"
    /\ store.db_connected
    /\ req[r].sess.db_config = [database |-> "db1"]

\* C29: every entry of the stored history has a text as its content: the
\* response appended as the assistant's turn is never None.
C29_HistoryHoldsText ==
  \A i \in 1..Len(store.messages) : store.messages[i].content # None

\* C30: a refused request leaves the session as it was: a chat request
\* refused for want of a connection or of a message, a connect request that
\* is refused and a set-directive request with an empty directive change
\* neither history, descriptor, connected flag, directive nor schema cache.
C30_RefusalsChangeNothing ==
  [][(chat_refused \/ connect_refused \/ set_directive_refused) => store' = store]_vars

\* a chat request with an empty message was refused while the session was
\* connected and held its welcome message, and the session is as it was
C30_Witness ==
  \E r \in Requests :
    /\ req[r].pc = "refused"
    /\ req[r].turn.response = EmptyMessage
    /\ store.db_connected
    /\ store.messages # <<>>
    /\ store = req[r].sess

====
